---- MODULE Spec2Model ----
(***************************************************************************)
(* Model of the mythicplusbot score synchronisation pipeline:              *)
(*   updater.Service.Update / updateCharacter   (src/updater/updater.go)   *)
(*   blizzard.Client credential cache and profile GET (src/blizzard/api.go)*)
(*   raiderio.Client.GetCharacter               (src/unnamed/part_003)     *)
(*   db.CharacterRepo over the characters table (src/db/characters.go)     *)
(*                                                                         *)
(* Scores are float64 in the program.  They are modelled as integers in    *)
(* tenths (1234.5 is 12345); every modelled value has far fewer than 15    *)
(* significant digits.  Instants are seconds on the injected time source.  *)
(* Go errors are modelled as the sequence of the messages of their wrap    *)
(* chain, outermost first; the nil error is the empty sequence.            *)
(***************************************************************************)
EXTENDS Integers, Sequences, FiniteSets, TLC

\* ------------------------------------------------------------------ bounds
\* Number of passes one goroutine runs in a behaviour.
MaxPasses == 2

\* ------------------------------------------------------- program constants
\* updater.go:18   const cooldownTime = time.Millisecond * 250   (in ms)
cooldownTime == 250
\* api.go:56       const expiryBuffer = time.Minute * 5          (in s)
expiryBuffer == 300

\* ------------------------------------------------------------ input domains
\* Ratings returned by Provider A (tenths): 0.0 and 1234.5
Ratings == {0, 12345}
\* Instants the time source can return (seconds).
Times == {0, 3000, 3300, 3600}
\* access_token values of a decodable token response ("" when the field is absent)
Tokens == {"", "t1"}
\* expires_in values of a decodable token response (seconds; 0 when the
\* field is absent)
ExpiresIns == {0, 3600}
\* The ways one HTTP exchange fails: transport error, non-200 status, bad body
HTTPFailures == {"transport", "status", "decode"}
\* raiderio.Scores values of a season (tank, healer, dps in tenths)
SeasonA == [Tank |-> 24000, Healer |-> 23000, Dps |-> 22000]
SeasonB == [Tank |-> 0, Healer |-> 0, Dps |-> 1000]
\* mythic_plus_scores_by_season of a Provider B profile: no season, or two
SeasonSeqs == {<<>>, <<SeasonA, SeasonB>>}
\* The goroutines that can run a pass.
Procs == {1, 2}
\* Longest sequence of recent runs handed to getLatestRun.
MaxRuns == 3
\* Completion instants of runs; 0 is the zero time.Time.
Instants == 1..3
\* Keystone run ids, to tell runs completed at the same instant apart.
RunIds == {1, 2}

VARIABLES
    store,       \* rows of the characters table, in rowid order
    ID,          \* blizzard.Client.ID
    Secret,      \* blizzard.Client.Secret
    Bearer,      \* blizzard.Client.Bearer
    Expires,     \* blizzard.Client.Expires
    now,         \* last instant returned by the TimeProvider
    passes,      \* number of passes started so far
    pc,          \* per goroutine: position in Update / updateCharacter
    characters,  \* per goroutine: the slice returned by ListCharacters
    idx,         \* per goroutine: range index into characters (1-based)
    character,   \* per goroutine: updateCharacter's by-value copy
    profile,     \* per goroutine: profile.CurrentMythicRating.Rating
    rCharacter,  \* per goroutine: rCharacter.MythicPlusScoresBySeason
    oldScore,    \* per goroutine: oldScore local of updateCharacter
    authResp,    \* per goroutine: decoded token response of getBearerToken
    err,         \* per goroutine: error returned by the last updateCharacter
    ret,         \* per goroutine: error returned by the last Update
    calls,       \* per goroutine: the calls made for the current character, in full
    trace,       \* per goroutine: <<op, ch, ok, arg>> of every call of the current pass
    ctx,         \* the context handed to Update: done, and the characters begun by then
    rc,          \* raiderio.Character.MythicPlusRecentRuns handed to getLatestRun
    latestRun,   \* <<>> or <<the run getLatestRun returned>>
    args,        \* strings.Fields of the last command message handled by the bot
    reply,       \* the last message the bot sent to the channel
    bot,         \* HandleMessage: position, messages sent, service calls made, result
    sf,          \* buildScoresFields: its input, locals and outcome
    cfg          \* Config.merge: receiver, argument and results

vars == <<store, ID, Secret, Bearer, Expires, now, passes, pc, characters, idx,
          character, profile, rCharacter, oldScore, authResp, err, ret, calls, trace,
          ctx, rc, latestRun, args, reply, bot, sf, cfg>>

cred == <<ID, Secret, Bearer, Expires, now>>
locals == <<characters, idx, character, profile, rCharacter, oldScore, authResp, err, ret>>

\* The variables Update and updateCharacter never write.
outside == <<ctx, rc, latestRun, args, reply, bot, sf, cfg>>

\* The nil error.
NilErr == <<>>

\* db.Character zero value (date_updated is written by the table's trigger only
\* and never read by the pipeline; it is not carried).
ZeroCharacter ==
    [ID |-> 0, Name |-> "", Realm |-> "", Class |-> "",
     OverallScore |-> 0, TankScore |-> 0, DPSScore |-> 0, HealScore |-> 0,
     DateCreated |-> 0]

\* raiderio.Season{} zero value, scores only.
ZeroSeason == [Tank |-> 0, Healer |-> 0, Dps |-> 0]

\* The two tracked characters a store can hold, as a pass left them
\* (updater.go:118-123) when their current season was SeasonA.
SeedRow(n, overall) ==
    [ID |-> n,
     Name |-> IF n = 1 THEN "Aa" ELSE "Bb",
     Realm |-> IF n = 1 THEN "frostmourne" ELSE "barthilas",
     Class |-> IF n = 1 THEN "Mage" ELSE "Druid",
     OverallScore |-> overall, TankScore |-> SeasonA.Tank, DPSScore |-> SeasonA.Dps,
     HealScore |-> SeasonA.Healer,
     DateCreated |-> 1]

\* ------------------------------------------------------------------ store
\* Decimal digits of a natural number, most significant first.
RECURSIVE Digits(_)
Digits(n) == IF n < 10 THEN <<n>> ELSE Append(Digits(n \div 10), n % 10)

\* The score column has TEXT affinity: a bound float is kept as its decimal
\* text.  The text is a sequence of character codes; '.' (-1) sorts before
\* every digit, as in the BINARY collation.
ScoreText(s) == Digits(s \div 10) \o <<-1>> \o <<s % 10>>

\* a < b in the BINARY collation (memcmp, a proper prefix is smaller).
RECURSIVE TextLess(_, _)
TextLess(a, b) ==
    IF Len(b) = 0 THEN FALSE
    ELSE IF Len(a) = 0 THEN TRUE
    ELSE IF Head(a) # Head(b) THEN Head(a) < Head(b)
    ELSE TextLess(Tail(a), Tail(b))

Perms(n) == {f \in [1..n -> 1..n] : \A i, j \in 1..n : i # j => f[i] # f[j]}

\* CharacterRepo.ListCharacters with limit = 0: every row, ORDER BY score DESC
\* (rows with equal score in any order).
ListCharacters(st) ==
    {[k \in 1..Len(st) |-> st[f[k]]] : f \in
        {g \in Perms(Len(st)) : \A k \in 1..(Len(st) - 1) :
            ~TextLess(ScoreText(st[g[k]].OverallScore), ScoreText(st[g[k + 1]].OverallScore))}}

\* An update with no WHERE clause: every row takes the scores.
RepoUpdate_noWhere(st, c) ==
    [k \in 1..Len(st) |->
        [st[k] EXCEPT !.OverallScore = c.OverallScore, !.TankScore = c.TankScore,
                      !.DPSScore = c.DPSScore, !.HealScore = c.HealScore]]

\* An update that adds the tank score to the stored one.
RepoUpdate_accumulate(st, c) ==
    [k \in 1..Len(st) |->
        IF st[k].Name = c.Name /\ st[k].Realm = c.Realm
        THEN [st[k] EXCEPT !.OverallScore = c.OverallScore, !.TankScore = @ + c.TankScore,
                           !.DPSScore = c.DPSScore, !.HealScore = c.HealScore]
        ELSE st[k]]

\* CharacterRepo.Update: UPDATE ... SET score, tank_score, dps_score, heal_score
\* WHERE name = ? AND realm = ?
RepoUpdate(st, c) ==
    [k \in 1..Len(st) |->
        IF st[k].Name = c.Name /\ st[k].Realm = c.Realm
        THEN [st[k] EXCEPT !.OverallScore = c.OverallScore, !.TankScore = c.TankScore,
                           !.DPSScore = c.DPSScore, !.HealScore = c.HealScore]
        ELSE st[k]]

\* ------------------------------------------------------------------ calls
\* One call on a collaborator: op names the call, ch is the ID of the character
\* it is made for, ok its outcome, arg one numeric argument or result,
\* scores the <<overall, tank, heal, dps>> of the character passed, bearer
\* the token of an Authorization header and seasons the seasons of a
\* Provider B response.
Call(op, ch, ok, arg, scores) ==
    [op |-> op, ch |-> ch, ok |-> ok, arg |-> arg, scores |-> scores,
     bearer |-> "", seasons |-> <<>>]

\* Names of the calls.
OpList == "ListCharacters"
OpToken == "POST oauth/token"
OpA == "GET mythic-keystone-profile"
OpB == "raiderio.GetCharacter"
OpUpdate == "UpdateCharacter"
OpNotify == "SendComplexMessage"
OpSleep == "Sleep"
\* updateCharacter's return to Update; ok when the error is nil.
OpReturn == "updateCharacter returns"

NoScores == <<0, 0, 0, 0>>
ScoresOf(c) == <<c.OverallScore, c.TankScore, c.HealScore, c.DPSScore>>

\* The calls es, in order, are made by goroutine p.
Log(p, es) ==
    /\ calls' = [calls EXCEPT ![p] = @ \o es]
    /\ trace' = [trace EXCEPT ![p] = @ \o [k \in 1..Len(es) |-> <<es[k].op, es[k].ch, es[k].ok, es[k].arg>>]]

Goto(p, l) == pc' = [pc EXCEPT ![p] = l]

\* updateCharacter returns to Update with a nil (ok) or non-nil error.
Returns(p, ok) == Call(OpReturn, character[p].ID, ok, 0, NoScores)

\* The locals of updateCharacter and of the calls below it as they are outside
\* a call of updateCharacter.
NoLocals(p) ==
    /\ profile' = [profile EXCEPT ![p] = 0]
    /\ rCharacter' = [rCharacter EXCEPT ![p] = <<>>]
    /\ oldScore' = [oldScore EXCEPT ![p] = 0]
    /\ authResp' = [authResp EXCEPT ![p] = [AccessToken |-> "", ExpiresIn |-> 0]]

\* ------------------------------------------------------------------- Init
\* main.go:49-55,102: an opened table holding zero, one or two tracked
\* characters, a new blizzard.Client after SetCredentials (the configured id
\* and secret may be empty), no pass started.
Constructed ==
    /\ \E n \in 0..2 : \E sc \in [1..n -> Ratings] :
          store = [k \in 1..n |-> SeedRow(k, sc[k])]
    /\ ID \in {"", "id"}
    /\ Secret \in {"", "secret"}
    /\ Bearer = ""
    /\ Expires = 0
    /\ now = 0
    /\ passes = 0
    /\ pc = [p \in Procs |-> "idle"]
    /\ characters = [p \in Procs |-> <<>>]
    /\ idx = [p \in Procs |-> 1]
    /\ character = [p \in Procs |-> ZeroCharacter]
    /\ profile = [p \in Procs |-> 0]
    /\ rCharacter = [p \in Procs |-> <<>>]
    /\ oldScore = [p \in Procs |-> 0]
    /\ authResp = [p \in Procs |-> [AccessToken |-> "", ExpiresIn |-> 0]]
    /\ err = [p \in Procs |-> NilErr]
    /\ ret = [p \in Procs |-> NilErr]
    /\ calls = [p \in Procs |-> <<>>]
    /\ trace = [p \in Procs |-> <<>>]
    /\ ctx = [done |-> FALSE, begun |-> 0]

\* HandleMessage outside a call: nothing sent, no service called, no result.
NoMessage == [pc |-> "idle", sent |-> <<>>, svc |-> <<>>, base |-> 0, ret |-> NilErr]

\* No message has been built and no command handled.
Init ==
    /\ Constructed
    /\ rc = <<>>
    /\ latestRun = <<>>
    /\ args = <<>>
    /\ reply = <<>>
    /\ bot = NoMessage
    /\ sf = <<>>
    /\ cfg = <<>>

\* --------------------------------------------------------- Service.Update
\* updater.go:80   fmt.Errorf("failed to list characters: %w", err)
ListErr_swallowed(cause) == NilErr
ListErr(cause) == <<"failed to list characters", cause>>

\* updater.go:75-81: list the characters; a listing error ends the pass.
UpdateList(p) ==
    /\ pc[p] \in {"idle", "returned"}
    /\ passes < MaxPasses
    /\ passes' = passes + 1
    /\ \/ /\ trace' = [trace EXCEPT ![p] = <<<<OpList, 0, FALSE, 0>>>>]
          /\ ret' = [ret EXCEPT ![p] = ListErr("database error")]
          /\ characters' = [characters EXCEPT ![p] = <<>>]
          /\ Goto(p, "returned")
       \/ \E l \in ListCharacters(store) :
          /\ ~ctx.done
          /\ trace' = [trace EXCEPT ![p] = <<<<OpList, 0, TRUE, 0>>>>]
          /\ ret' = [ret EXCEPT ![p] = NilErr]
          /\ characters' = [characters EXCEPT ![p] = l]
          /\ Goto(p, "range")
    /\ calls' = [calls EXCEPT ![p] = <<>>]
    /\ idx' = [idx EXCEPT ![p] = 1]
    /\ UNCHANGED <<store, cred, character, profile, rCharacter, oldScore, authResp, err>>
    /\ UNCHANGED outside

\* A loop that walks the listing from its end.
UpdateRange_reversed(p) ==
    /\ pc[p] = "range"
    /\ IF idx[p] > Len(characters[p])
       THEN /\ ret' = [ret EXCEPT ![p] = NilErr]
            /\ Goto(p, "returned")
            /\ UNCHANGED <<character, calls>>
       ELSE /\ character' = [character EXCEPT ![p] = characters[p][Len(characters[p]) + 1 - idx[p]]]
            /\ calls' = [calls EXCEPT ![p] = <<>>]
            /\ Goto(p, "checkClient")
            /\ UNCHANGED ret
    /\ UNCHANGED <<store, cred, passes, characters, idx, profile, rCharacter,
                   oldScore, authResp, err, trace>>
    /\ UNCHANGED outside

\* updater.go:83-84,95: the range loop takes the next character by value and
\* calls updateCharacter, or the pass returns nil after the last one.
UpdateRange(p) ==
    /\ pc[p] = "range"
    /\ IF idx[p] > Len(characters[p])
       THEN /\ ret' = [ret EXCEPT ![p] = NilErr]
            /\ Goto(p, "returned")
            /\ UNCHANGED <<character, calls>>
       ELSE /\ character' = [character EXCEPT ![p] = characters[p][idx[p]]]
            /\ calls' = [calls EXCEPT ![p] = <<>>]
            /\ Goto(p, "checkClient")
            /\ UNCHANGED ret
    /\ UNCHANGED <<store, cred, passes, characters, idx, profile, rCharacter,
                   oldScore, authResp, err, trace>>
    /\ UNCHANGED outside

\* A loop that gives up at the first character error.
UpdateContinue_abort(p) ==
    /\ pc[p] = "failed"
    /\ ret' = [ret EXCEPT ![p] = err[p]]
    /\ err' = [err EXCEPT ![p] = NilErr]
    /\ NoLocals(p)
    /\ Goto(p, "returned")
    /\ UNCHANGED <<store, cred, passes, characters, idx, character, calls, trace>>
    /\ UNCHANGED outside

\* A loop that pauses after a failed character too.
UpdateContinue_sleeps(p) ==
    /\ pc[p] = "failed"
    /\ Log(p, <<Call(OpSleep, character[p].ID, TRUE, cooldownTime, NoScores)>>)
    /\ idx' = [idx EXCEPT ![p] = @ + 1]
    /\ err' = [err EXCEPT ![p] = NilErr]
    /\ NoLocals(p)
    /\ Goto(p, "range")
    /\ UNCHANGED <<store, cred, passes, characters, character, ret>>
    /\ UNCHANGED outside

\* updater.go:84-89: updateCharacter returned an error: log it and continue
\* with the next character, without sleeping.
UpdateContinue(p) ==
    /\ pc[p] = "failed"
    /\ idx' = [idx EXCEPT ![p] = @ + 1]
    /\ err' = [err EXCEPT ![p] = NilErr]
    /\ NoLocals(p)
    /\ Goto(p, "range")
    /\ UNCHANGED <<store, cred, passes, characters, character, ret, calls, trace>>
    /\ UNCHANGED outside

\* A loop that goes to the next character without the pause.
UpdateSleep_noPause(p) ==
    /\ pc[p] = "sleep"
    /\ idx' = [idx EXCEPT ![p] = @ + 1]
    /\ NoLocals(p)
    /\ Goto(p, "range")
    /\ UNCHANGED <<store, cred, passes, characters, character, err, ret, calls, trace>>
    /\ UNCHANGED outside

\* updater.go:92: updateCharacter returned nil: Sleep(cooldownTime), then the
\* next character.
UpdateSleep(p) ==
    /\ pc[p] = "sleep"
    /\ Log(p, <<Call(OpSleep, character[p].ID, TRUE, cooldownTime, NoScores)>>)
    /\ idx' = [idx EXCEPT ![p] = @ + 1]
    /\ NoLocals(p)
    /\ Goto(p, "range")
    /\ UNCHANGED <<store, cred, passes, characters, character, err, ret>>
    /\ UNCHANGED outside

\* ------------------------------------------------- blizzard.Client (api.go)
\* A check without the guard on the client id and secret.
checkClient_noGuard(p) ==
    /\ pc[p] = "checkClient"
    /\ IF Bearer = ""
       THEN Goto(p, "getBearerToken") /\ UNCHANGED now
       ELSE \E t \in Times :
            /\ t >= now
            /\ now' = t
            /\ IF t + expiryBuffer > Expires
               THEN Goto(p, "getBearerToken")
               ELSE Goto(p, "sendRequest")
    /\ UNCHANGED <<store, ID, Secret, Bearer, Expires, passes, locals, calls, trace>>
    /\ UNCHANGED outside

\* api.go:72-85 checkClient, entered from GetMythicKeystoneProfile (api.go:140)
\* as called by updateCharacter (updater.go:99).  Now() is read only when the
\* bearer is set (short-circuit ||); After is a strict comparison.
checkClient(p) ==
    /\ pc[p] = "checkClient"
    /\ IF ID = "" \/ Secret = ""
       THEN /\ Log(p, <<Returns(p, FALSE)>>)
            /\ err' = [err EXCEPT ![p] = <<"failed to get mythic profile", "client is not initialised">>]
            /\ Goto(p, "failed")
            /\ UNCHANGED now
       ELSE IF Bearer = ""
       THEN Goto(p, "getBearerToken") /\ UNCHANGED <<now, err, calls, trace>>
       ELSE \E t \in Times :
            /\ t >= now
            /\ now' = t
            /\ IF t + expiryBuffer > Expires
               THEN Goto(p, "getBearerToken")
               ELSE Goto(p, "sendRequest")
            /\ UNCHANGED <<err, calls, trace>>
    /\ UNCHANGED <<store, ID, Secret, Bearer, Expires, passes, characters, idx, character,
                   profile, rCharacter, oldScore, authResp, ret>>
    /\ UNCHANGED outside

\* Message of getBearerToken's error for each failure of the exchange
\* (api.go:103, 108, 118).
TokenErr(f) ==
    CASE f = "transport" -> "failed to make request"
      [] f = "status" -> "failed to get bearer token"
      [] f = "decode" -> "failed to parse response"

\* A refresh whose failure is dropped: the GET goes out with the token at hand.
getBearerToken_ignoreErr(p) ==
    /\ pc[p] = "getBearerToken"
    /\ \/ /\ Log(p, <<Call(OpToken, character[p].ID, FALSE, 0, NoScores)>>)
          /\ Goto(p, "sendRequest")
          /\ UNCHANGED authResp
       \/ \E tok \in Tokens, e \in ExpiresIns :
          /\ ~ctx.done
          /\ Log(p, <<Call(OpToken, character[p].ID, TRUE, 0, NoScores)>>)
          /\ authResp' = [authResp EXCEPT ![p] = [AccessToken |-> tok, ExpiresIn |-> e]]
          /\ Goto(p, "setBearer")
    /\ UNCHANGED <<store, cred, passes, characters, idx, character, profile, rCharacter,
                   oldScore, err, ret>>
    /\ UNCHANGED outside

\* A refresh that drops the token at hand when the exchange fails.
getBearerToken_clearsBearer(p) ==
    /\ pc[p] = "getBearerToken"
    /\ \/ \E f \in HTTPFailures :
          /\ ctx.done => f = "transport"
          /\ Log(p, <<Call(OpToken, character[p].ID, FALSE, 0, NoScores), Returns(p, FALSE)>>)
          /\ err' = [err EXCEPT ![p] = <<"failed to get mythic profile", TokenErr(f)>>]
          /\ Bearer' = ""
          /\ Goto(p, "failed")
          /\ UNCHANGED authResp
       \/ \E tok \in Tokens, e \in ExpiresIns :
          /\ ~ctx.done
          /\ Log(p, <<Call(OpToken, character[p].ID, TRUE, 0, NoScores)>>)
          /\ authResp' = [authResp EXCEPT ![p] = [AccessToken |-> tok, ExpiresIn |-> e]]
          /\ Goto(p, "setBearer")
          /\ UNCHANGED <<err, Bearer>>
    /\ UNCHANGED <<store, ID, Secret, Expires, now, passes, characters, idx, character,
                   profile, rCharacter, oldScore, ret>>
    /\ UNCHANGED outside

\* api.go:87-119 getBearerToken up to the decoded response: one POST to the
\* token endpoint; any failure is returned through checkClient and
\* GetMythicKeystoneProfile to updateCharacter (updater.go:100-102).
getBearerToken(p) ==
    /\ pc[p] = "getBearerToken"
    /\ \/ \E f \in HTTPFailures :
          /\ ctx.done => f = "transport"
          /\ Log(p, <<Call(OpToken, character[p].ID, FALSE, 0, NoScores), Returns(p, FALSE)>>)
          /\ err' = [err EXCEPT ![p] = <<"failed to get mythic profile", TokenErr(f)>>]
          /\ Goto(p, "failed")
          /\ UNCHANGED authResp
       \/ \E tok \in Tokens, e \in ExpiresIns :
          /\ ~ctx.done
          /\ Log(p, <<Call(OpToken, character[p].ID, TRUE, 0, NoScores)>>)
          /\ authResp' = [authResp EXCEPT ![p] = [AccessToken |-> tok, ExpiresIn |-> e]]
          /\ Goto(p, "setBearer")
          /\ UNCHANGED err
    /\ UNCHANGED <<store, cred, passes, characters, idx, character, profile, rCharacter,
                   oldScore, ret>>
    /\ UNCHANGED outside

\* api.go:121   c.Bearer = authResp.AccessToken
setBearer(p) ==
    /\ pc[p] = "setBearer"
    /\ Bearer' = authResp[p].AccessToken
    /\ Goto(p, "setExpires")
    /\ UNCHANGED <<store, ID, Secret, Expires, now, passes, locals, calls, trace>>
    /\ UNCHANGED outside

\* An expiry that leaves expires_in out.
setExpires_ignoresExpiresIn(p) ==
    /\ pc[p] = "setExpires"
    /\ \E t \in Times :
          /\ t >= now
          /\ now' = t
          /\ Expires' = t
    /\ Goto(p, "sendRequest")
    /\ UNCHANGED <<store, ID, Secret, Bearer, passes, locals, calls, trace>>
    /\ UNCHANGED outside

\* api.go:122   c.Expires = c.timeProvider.Now().Add(ExpiresIn seconds)
setExpires(p) ==
    /\ pc[p] = "setExpires"
    /\ \E t \in Times :
          /\ t >= now
          /\ now' = t
          /\ Expires' = t + authResp[p].ExpiresIn
    /\ Goto(p, "sendRequest")
    /\ UNCHANGED <<store, ID, Secret, Bearer, passes, locals, calls, trace>>
    /\ UNCHANGED outside

\* Message of GetMythicKeystoneProfile's error for each failure of the GET
\* (api.go:153, 158, 168).
ProfileErr(f) ==
    CASE f = "transport" -> "transport error"
      [] f = "status" -> "failed to get mythic keystone profile"
      [] f = "decode" -> "json: cannot unmarshal"

\* A GET that is sent a second time after its first failure.
sendRequest_retry(p) ==
    /\ pc[p] = "sendRequest"
    /\ \/ \E f \in HTTPFailures :
          /\ ctx.done => f = "transport"
          /\ IF \A k \in DOMAIN calls[p] : calls[p][k].op # OpA
             THEN /\ Log(p, <<[Call(OpA, character[p].ID, FALSE, 0, NoScores) EXCEPT !.bearer = Bearer]>>)
                  /\ UNCHANGED <<err, pc>>
             ELSE /\ Log(p, <<[Call(OpA, character[p].ID, FALSE, 0, NoScores) EXCEPT !.bearer = Bearer],
                              Returns(p, FALSE)>>)
                  /\ err' = [err EXCEPT ![p] = <<"failed to get mythic profile", ProfileErr(f)>>]
                  /\ Goto(p, "failed")
          /\ UNCHANGED profile
       \/ \E r \in Ratings :
          /\ ~ctx.done
          /\ Log(p, <<[Call(OpA, character[p].ID, TRUE, r, NoScores) EXCEPT !.bearer = Bearer]>>)
          /\ profile' = [profile EXCEPT ![p] = r]
          /\ Goto(p, "compare")
          /\ UNCHANGED err
    /\ UNCHANGED <<store, cred, passes, characters, idx, character, rCharacter,
                   oldScore, authResp, ret>>
    /\ UNCHANGED outside

\* api.go:144-171: one GET carrying "Bearer "+c.Bearer; the profile or an error
\* goes back to updateCharacter (updater.go:99-102).
sendRequest(p) ==
    /\ pc[p] = "sendRequest"
    /\ \/ \E f \in HTTPFailures :
          /\ ctx.done => f = "transport"
          /\ Log(p, <<[Call(OpA, character[p].ID, FALSE, 0, NoScores) EXCEPT !.bearer = Bearer],
                      Returns(p, FALSE)>>)
          /\ err' = [err EXCEPT ![p] = <<"failed to get mythic profile", ProfileErr(f)>>]
          /\ Goto(p, "failed")
          /\ UNCHANGED profile
       \/ \E r \in Ratings :
          /\ ~ctx.done
          /\ Log(p, <<[Call(OpA, character[p].ID, TRUE, r, NoScores) EXCEPT !.bearer = Bearer]>>)
          /\ profile' = [profile EXCEPT ![p] = r]
          /\ Goto(p, "compare")
          /\ UNCHANGED err
    /\ UNCHANGED <<store, cred, passes, characters, idx, character, rCharacter,
                   oldScore, authResp, ret>>
    /\ UNCHANGED outside

\* ------------------------------------------- Service.updateCharacter
\* Change tests that fire always, or on an increase only.
Changed_always(rating, stored) == TRUE
Changed_increaseOnly(rating, stored) == rating > stored

\* The change test of updater.go:104.
Changed(rating, stored) == rating # stored

\* An unchanged character that is skipped without returning to the pause.
compare_skipsPause(p) ==
    /\ pc[p] = "compare"
    /\ IF Changed(profile[p], character[p].OverallScore)
       THEN Goto(p, "GetCharacter") /\ UNCHANGED <<calls, trace, idx>>
       ELSE /\ Log(p, <<Returns(p, TRUE)>>)
            /\ idx' = [idx EXCEPT ![p] = @ + 1]
            /\ Goto(p, "range")
    /\ UNCHANGED <<store, cred, passes, characters, character, profile, rCharacter,
                   oldScore, authResp, err, ret>>
    /\ UNCHANGED outside

\* updater.go:104-106: an unchanged rating returns nil.
compare(p) ==
    /\ pc[p] = "compare"
    /\ IF Changed(profile[p], character[p].OverallScore)
       THEN Goto(p, "GetCharacter") /\ UNCHANGED <<calls, trace>>
       ELSE Log(p, <<Returns(p, TRUE)>>) /\ Goto(p, "sleep")
    /\ UNCHANGED <<store, cred, passes, locals>>
    /\ UNCHANGED outside

\* A current season taken from the end of the sequence.
CurrentSeason_last(seasons) == IF Len(seasons) > 0 THEN seasons[Len(seasons)] ELSE ZeroSeason

\* updater.go:113-116: the first season, or the zero season.
CurrentSeason(seasons) == IF Len(seasons) > 0 THEN seasons[1] ELSE ZeroSeason

\* A merge that leaves the overall score as it was listed.
Merge_keepsOverall(c, rating, season) ==
    [c EXCEPT !.TankScore = season.Tank, !.HealScore = season.Healer, !.DPSScore = season.Dps]

\* A merge that crosses the healer and dps values.
Merge_swapped(c, rating, season) ==
    [c EXCEPT !.OverallScore = rating, !.TankScore = season.Tank,
              !.HealScore = season.Dps, !.DPSScore = season.Healer]

\* updater.go:118-122: the merge into the by-value copy.
Merge(c, rating, season) ==
    [c EXCEPT !.OverallScore = rating, !.TankScore = season.Tank,
              !.HealScore = season.Healer, !.DPSScore = season.Dps]

\* A Provider B failure that is dropped: the merge goes on with the zero season.
GetCharacter_ignoreErr(p) ==
    /\ pc[p] = "GetCharacter"
    /\ \/ /\ Log(p, <<Call(OpB, character[p].ID, FALSE, 0, NoScores)>>)
          /\ rCharacter' = [rCharacter EXCEPT ![p] = <<>>]
          /\ oldScore' = [oldScore EXCEPT ![p] = character[p].OverallScore]
          /\ character' = [character EXCEPT ![p] = Merge(@, profile[p], ZeroSeason)]
          /\ Goto(p, "UpdateCharacter")
       \/ \E seasons \in SeasonSeqs :
          /\ ~ctx.done
          /\ Log(p, <<[Call(OpB, character[p].ID, TRUE, 0, NoScores) EXCEPT !.seasons = seasons]>>)
          /\ rCharacter' = [rCharacter EXCEPT ![p] = seasons]
          /\ oldScore' = [oldScore EXCEPT ![p] = character[p].OverallScore]
          /\ character' = [character EXCEPT ![p] = Merge(@, profile[p], CurrentSeason(seasons))]
          /\ Goto(p, "UpdateCharacter")
    /\ UNCHANGED <<store, cred, passes, characters, idx, profile, authResp, err, ret>>
    /\ UNCHANGED outside

\* An old score read from the copy after the merge.
GetCharacter_oldAfterMerge(p) ==
    /\ pc[p] = "GetCharacter"
    /\ \/ \E f \in HTTPFailures :
          /\ ctx.done => f = "transport"
          /\ Log(p, <<Call(OpB, character[p].ID, FALSE, 0, NoScores), Returns(p, FALSE)>>)
          /\ err' = [err EXCEPT ![p] = <<"failed to get character", f>>]
          /\ Goto(p, "failed")
          /\ UNCHANGED <<rCharacter, oldScore, character>>
       \/ \E seasons \in SeasonSeqs :
          /\ ~ctx.done
          /\ Log(p, <<[Call(OpB, character[p].ID, TRUE, 0, NoScores) EXCEPT !.seasons = seasons]>>)
          /\ rCharacter' = [rCharacter EXCEPT ![p] = seasons]
          /\ oldScore' = [oldScore EXCEPT ![p] = profile[p]]
          /\ character' = [character EXCEPT ![p] = Merge(@, profile[p], CurrentSeason(seasons))]
          /\ Goto(p, "UpdateCharacter")
          /\ UNCHANGED err
    /\ UNCHANGED <<store, cred, passes, characters, idx, profile, authResp, ret>>
    /\ UNCHANGED outside

\* updater.go:108-122: raiderio GetCharacter (part_003:43-85, one GET), then
\* the merge of both providers' values into character.
GetCharacter(p) ==
    /\ pc[p] = "GetCharacter"
    /\ \/ \E f \in HTTPFailures :
          /\ ctx.done => f = "transport"
          /\ Log(p, <<Call(OpB, character[p].ID, FALSE, 0, NoScores), Returns(p, FALSE)>>)
          /\ err' = [err EXCEPT ![p] = <<"failed to get character", f>>]
          /\ Goto(p, "failed")
          /\ UNCHANGED <<rCharacter, oldScore, character>>
       \/ \E seasons \in SeasonSeqs :
          /\ ~ctx.done
          /\ Log(p, <<[Call(OpB, character[p].ID, TRUE, 0, NoScores) EXCEPT !.seasons = seasons]>>)
          /\ rCharacter' = [rCharacter EXCEPT ![p] = seasons]
          /\ oldScore' = [oldScore EXCEPT ![p] = character[p].OverallScore]
          /\ character' = [character EXCEPT ![p] = Merge(@, profile[p], CurrentSeason(seasons))]
          /\ Goto(p, "UpdateCharacter")
          /\ UNCHANGED err
    /\ UNCHANGED <<store, cred, passes, characters, idx, profile, authResp, ret>>
    /\ UNCHANGED outside

\* A store update whose failure is dropped: the notification goes out anyway.
UpdateCharacter_ignoreErr(p) ==
    /\ pc[p] = "UpdateCharacter"
    /\ \/ /\ Log(p, <<Call(OpUpdate, character[p].ID, FALSE, 0, ScoresOf(character[p]))>>)
          /\ UNCHANGED store
       \/ /\ ~ctx.done
          /\ Log(p, <<Call(OpUpdate, character[p].ID, TRUE, 0, ScoresOf(character[p]))>>)
          /\ store' = RepoUpdate(store, character[p])
    /\ Goto(p, "SendComplexMessage")
    /\ UNCHANGED <<cred, passes, locals>>
    /\ UNCHANGED outside

\* A sequence that notifies first and persists afterwards.
UpdateCharacter_notifyFirst(p) ==
    /\ pc[p] = "UpdateCharacter"
    /\ Log(p, <<Call(OpNotify, character[p].ID, TRUE, oldScore[p], ScoresOf(character[p])),
                Call(OpUpdate, character[p].ID, TRUE, 0, ScoresOf(character[p])),
                Returns(p, TRUE)>>)
    /\ store' = RepoUpdate(store, character[p])
    /\ Goto(p, "sleep")
    /\ UNCHANGED <<cred, passes, locals>>
    /\ UNCHANGED outside

\* A store update that reports its failure after the row was written.
UpdateCharacter_failsAfterWrite(p) ==
    /\ pc[p] = "UpdateCharacter"
    /\ \/ /\ Log(p, <<Call(OpUpdate, character[p].ID, FALSE, 0, ScoresOf(character[p])),
                      Returns(p, FALSE)>>)
          /\ err' = [err EXCEPT ![p] = <<"failed to update character score", "database error">>]
          /\ store' = RepoUpdate(store, character[p])
          /\ Goto(p, "failed")
       \/ /\ ~ctx.done
          /\ Log(p, <<Call(OpUpdate, character[p].ID, TRUE, 0, ScoresOf(character[p]))>>)
          /\ store' = RepoUpdate(store, character[p])
          /\ Goto(p, "SendComplexMessage")
          /\ UNCHANGED err
    /\ UNCHANGED <<cred, passes, characters, idx, character, profile, rCharacter,
                   oldScore, authResp, ret>>
    /\ UNCHANGED outside

\* updater.go:123-125: persist the merged character (characters.go:53-56).
UpdateCharacter(p) ==
    /\ pc[p] = "UpdateCharacter"
    /\ \/ /\ Log(p, <<Call(OpUpdate, character[p].ID, FALSE, 0, ScoresOf(character[p])),
                      Returns(p, FALSE)>>)
          /\ err' = [err EXCEPT ![p] = <<"failed to update character score", "database error">>]
          /\ Goto(p, "failed")
          /\ UNCHANGED store
       \/ /\ ~ctx.done
          /\ Log(p, <<Call(OpUpdate, character[p].ID, TRUE, 0, ScoresOf(character[p]))>>)
          /\ store' = RepoUpdate(store, character[p])
          /\ Goto(p, "SendComplexMessage")
          /\ UNCHANGED err
    /\ UNCHANGED <<cred, passes, characters, idx, character, profile, rCharacter,
                   oldScore, authResp, ret>>
    /\ UNCHANGED outside

\* A send whose failure is only logged: updateCharacter returns nil either way.
SendComplexMessage_logOnly(p) ==
    /\ pc[p] = "SendComplexMessage"
    /\ \E sent \in BOOLEAN :
          Log(p, <<Call(OpNotify, character[p].ID, sent, oldScore[p], ScoresOf(character[p])),
                   Returns(p, TRUE)>>)
    /\ Goto(p, "sleep")
    /\ UNCHANGED <<store, cred, passes, locals>>
    /\ UNCHANGED outside

\* A failed send that puts the old overall score back into the table.
SendComplexMessage_rollback(p) ==
    /\ pc[p] = "SendComplexMessage"
    /\ \/ /\ Log(p, <<Call(OpNotify, character[p].ID, FALSE, oldScore[p], ScoresOf(character[p])),
                      Returns(p, FALSE)>>)
          /\ err' = [err EXCEPT ![p] = <<"failed to send message", "discord error">>]
          /\ store' = RepoUpdate(store, [character[p] EXCEPT !.OverallScore = oldScore[p]])
          /\ Goto(p, "failed")
       \/ /\ Log(p, <<Call(OpNotify, character[p].ID, TRUE, oldScore[p], ScoresOf(character[p])),
                      Returns(p, TRUE)>>)
          /\ Goto(p, "sleep")
          /\ UNCHANGED <<err, store>>
    /\ UNCHANGED <<cred, passes, characters, idx, character, profile, rCharacter,
                   oldScore, authResp, ret>>
    /\ UNCHANGED outside

\* updater.go:127-131: send the score update message built from the merged
\* character and oldScore; a send error is returned, success returns nil.
SendComplexMessage(p) ==
    /\ pc[p] = "SendComplexMessage"
    /\ \/ /\ Log(p, <<Call(OpNotify, character[p].ID, FALSE, oldScore[p], ScoresOf(character[p])),
                      Returns(p, FALSE)>>)
          /\ err' = [err EXCEPT ![p] = <<"failed to send message", "discord error">>]
          /\ Goto(p, "failed")
       \/ /\ Log(p, <<Call(OpNotify, character[p].ID, TRUE, oldScore[p], ScoresOf(character[p])),
                      Returns(p, TRUE)>>)
          /\ Goto(p, "sleep")
          /\ UNCHANGED err
    /\ UNCHANGED <<store, cred, passes, characters, idx, character, profile, rCharacter,
                   oldScore, authResp, ret>>
    /\ UNCHANGED outside

\* ------------------------------------------------------------ specification
\* One step of goroutine p.
Step(p) ==
    \/ UpdateList(p)
    \/ UpdateRange(p)
    \/ UpdateContinue(p)
    \/ UpdateSleep(p)
    \/ checkClient(p)
    \/ getBearerToken(p)
    \/ setBearer(p)
    \/ setExpires(p)
    \/ sendRequest(p)
    \/ compare(p)
    \/ GetCharacter(p)
    \/ UpdateCharacter(p)
    \/ SendComplexMessage(p)

\* One goroutine runs the passes one after the other (the ticker loop of
\* main.go:104-110).
Next == Step(1)

Spec == Init /\ [][Next]_vars

\* main.go:79-93,102-114: the pass main starts, the passes of the ticker
\* goroutine and the passes the update command starts in the handler's
\* goroutine run on the same Service, blizzard.Client and table with no lock
\* between them; two of them are in flight at most here.  One character with
\* no rating yet is tracked and the client is initialised.
InitConc ==
    /\ Init
    /\ store = <<SeedRow(1, 0)>>
    /\ ID = "id"
    /\ Secret = "secret"

NextConc == \E p \in Procs : Step(p)

SpecConc == InitConc /\ [][NextConc]_vars

\* ------------------------------------------------ cancellation of a pass
\* The characters of the pass of goroutine p that updateCharacter has been
\* called for: at the head of the loop idx is the next one.
Begun(p) == IF pc[p] = "range" THEN idx[p] - 1 ELSE idx[p]

\* updater.go:75: the caller cancels the context it handed to Update while the
\* pass is in flight.  A done context is final.
Cancel ==
    /\ ~ctx.done
    /\ pc[1] \notin {"idle", "returned"}
    /\ ctx' = [done |-> TRUE, begun |-> Begun(1)]
    /\ UNCHANGED <<store, cred, passes, pc, locals, calls, trace, rc, latestRun, args, reply,
                   bot, sf, cfg>>

\* Two characters with no rating yet are tracked and the client is
\* initialised.
InitCancel ==
    /\ Init
    /\ store = <<SeedRow(1, 0), SeedRow(2, 0)>>
    /\ ID = "id"
    /\ Secret = "secret"

NextCancel == Step(1) \/ Cancel

SpecCancel == InitCancel /\ [][NextCancel]_vars

\* --------------------------------------------- getLatestRun (discord.go)
\* raiderio.Run, with the two fields that identify a run and order it.
Runs == [KeystoneRunId : RunIds, CompletedAt : Instants]

\* raiderio.Run{} zero value.
ZeroRun == [KeystoneRunId |-> 0, CompletedAt |-> 0]

\* The values of Character.MythicPlusRecentRuns.
RunSeqs == UNION {[1..n -> Runs] : n \in 0..MaxRuns}

\* discord.go:800-804: the range over the runs; a run replaces latestRun when
\* its CompletedAt is After latestRun's.
RECURSIVE rangeRuns(_, _)
rangeRuns(latest, runs) ==
    IF runs = <<>> THEN latest
    ELSE rangeRuns(IF Head(runs).CompletedAt > latest.CompletedAt THEN Head(runs) ELSE latest,
                   Tail(runs))

\* A selection that trusts the first run to be the latest.
getLatestRun_first(runs) == IF Len(runs) > 0 THEN runs[1] ELSE ZeroRun

\* discord.go:795-808, on rc.MythicPlusRecentRuns.
getLatestRun(runs) == IF Len(runs) > 0 THEN rangeRuns(runs[1], runs) ELSE ZeroRun

\* discord.go:767-768: BuildScoreUpdateMessage selects the latest run of rc.
BuildScoreUpdateMessage ==
    /\ latestRun = <<>>
    /\ latestRun' = <<getLatestRun(rc)>>
    /\ UNCHANGED <<store, cred, passes, pc, locals, calls, trace, ctx, rc, args, reply,
                   bot, sf, cfg>>

\* Any Provider B character, as far as its recent runs go.
InitLatestRun ==
    /\ Constructed
    /\ store = <<>>
    /\ ID = "id"
    /\ Secret = "secret"
    /\ rc \in RunSeqs
    /\ latestRun = <<>>
    /\ args = <<>>
    /\ reply = <<>>
    /\ bot = NoMessage
    /\ sf = <<>>
    /\ cfg = <<>>

NextLatestRun == BuildScoreUpdateMessage

SpecLatestRun == InitLatestRun /\ [][NextLatestRun]_vars

\* ------------------------------------------------ bot commands (bot.go)
\* A name or a realm is a sequence of one-letter strings.
lowers == <<"a", "b", "c", "d", "r">>
uppers == <<"A", "B", "C", "D", "R">>

\* unicode.ToLower / unicode.ToUpper on one letter.
ToLowerCh(c) == IF \E i \in DOMAIN uppers : uppers[i] = c
                THEN lowers[CHOOSE i \in DOMAIN uppers : uppers[i] = c] ELSE c
ToUpperCh(c) == IF \E i \in DOMAIN lowers : lowers[i] = c
                THEN uppers[CHOOSE i \in DOMAIN lowers : lowers[i] = c] ELSE c

\* strings.ToLower / strings.ToUpper.
ToLower(str) == [i \in DOMAIN str |-> ToLowerCh(str[i])]
ToUpper(str) == [i \in DOMAIN str |-> ToUpperCh(str[i])]

\* bot.go:159-161   strings.ToUpper(name[:1]) + strings.ToLower(name[1:])
formatName(name) == ToUpper(SubSeq(name, 1, 1)) \o ToLower(SubSeq(name, 2, Len(name)))

\* bot.go:164-166   strings.ToLower(realm)
formatRealm(realm) == ToLower(realm)

\* The command prefix and the names and realms typed after add and remove.
Command == "!mythicplusbot"
CmdNames == {<<"a", "b">>, <<"A", "B">>, <<"c", "d">>}
CmdRealms == {<<"r">>, <<"R">>}

\* The messages of the two handlers.
Usage(cmd) == <<"Usage", cmd>>
FailedTo(cmd) == <<"Failed to", cmd>>
NowTracking(name, realm) == <<"Now tracking", name, realm>>
NoLongerTracking(name, realm) == <<"No longer tracking", name, realm>>

\* The profiles Provider A answers a lookup of name on realm with.  The
\* lookup is by the lowercased name and realm (api.go:144-145); the answer
\* carries the character's id, the name as the provider holds it (capitalised,
\* or lowercase as in the response of blizzard's tests), the realm slug and
\* a rating.
ProfileRating == 12345
Profiles(name, realm) ==
    {[ID |-> IF ToLower(name) = <<"a", "b">> THEN 1 ELSE 2,
      Name |-> n, Slug |-> ToLower(realm), Rating |-> ProfileRating] :
        n \in {formatName(name), ToLower(name)}}

\* CharacterRepo.Insert (characters.go:47-51) into the table of db.go:44-56:
\* the ten values are bound in the order id, name, realm, class, overall,
\* tank, dps, heal, date_updated, date_created against the columns id, name,
\* realm, class, score, tank_score, heal_score, dps_score, date_updated,
\* date_created, so the heal_score column takes DPSScore and dps_score takes
\* HealScore.  The row is given as the repository reads it back.
RepoInsert(st, c) ==
    Append(st, [c EXCEPT !.HealScore = c.DPSScore, !.DPSScore = c.HealScore])

\* CharacterRepo.Delete: DELETE FROM characters WHERE name = ? AND realm = ?
RepoDelete(st, name, realm) ==
    SelectSeq(st, LAMBDA row : ~(row.Name = name /\ row.Realm = realm))

\* blizzard.Client.GetMythicKeystoneProfile as AddCharacter calls it: the
\* check of the client, the refresh of the token when it is due, and the GET;
\* got tells whether a profile came back.  The clock readings of one call
\* (api.go:78, 122) are taken at one instant, one of MessageTimes, and the
\* token endpoint answers with one of Grants (a token and its expires_in).
MessageTimes == {0, 3600}
Grants == {<<"t1", 3600>>, <<"", 0>>}
bClientGet(got) ==
    IF ID = "" \/ Secret = ""
    THEN ~got /\ UNCHANGED <<Bearer, Expires, now>>
    ELSE \E t \in MessageTimes :
           /\ t >= now
           /\ IF Bearer = "" \/ t + expiryBuffer > Expires
              THEN \/ ~got /\ now' = t /\ UNCHANGED <<Bearer, Expires>>
                   \/ \E grant \in Grants :
                         /\ Bearer' = grant[1]
                         /\ Expires' = t + grant[2]
                         /\ now' = t
              ELSE now' = t /\ UNCHANGED <<Bearer, Expires>>

\* The error of a send that discord refused (discord.go:34-37).
SendErr == <<"discord error">>

\* The result of Sender.SendMessage: nil, or the error of the session.
SendResults == {NilErr, SendErr}

\* HandleMessage returned what its send of msg returned, r, after making the
\* calls svc of the character service (msgs is empty when nothing was sent);
\* base is the number of passes begun before the message.
Handled(msgs, svc, r) ==
    [pc |-> "idle", sent |-> IF msgs = <<>> THEN <<>> ELSE <<<<msgs[1], r>>>>,
     svc |-> svc, base |-> passes, ret |-> r]

\* A call of BotCharacterService.AddCharacter: the arguments, what the two
\* providers answered (a rating, a list of seasons) and how far the call went.
AddCall(name, realm, a, rating, b, seasons, ins, e) ==
    [op |-> "AddCharacter", name |-> name, realm |-> realm, a |-> a, rating |-> rating,
     b |-> b, seasons |-> seasons, insert |-> ins, err |-> e]

\* A call of BotCharacterService.RemoveCharacter.
RemoveCall(name, realm, e) ==
    [op |-> "RemoveCharacter", name |-> name, realm |-> realm, err |-> e]

\* bot.go:60-70, 78-82: content without the command prefix is ignored, a
\* prefix without a command gets the usage message, help the help message and
\* any other word the unknown-command message.
Contents == {<<"hello">>, <<"hello", Command>>, <<Command>>, <<Command, "help">>,
             <<Command, "bogus">>}
\* A handler that answers every message, command or not.
HandleMessage_answersAll ==
    \E content \in Contents, r \in SendResults :
        /\ args' = content
        /\ LET msg == IF content[1] # Command \/ Len(content) < 2 THEN Usage("<command>")
                      ELSE IF content[2] = "help" THEN <<"helpMessage">>
                      ELSE <<"Unknown command">>
           IN  reply' = msg /\ bot' = Handled(<<msg>>, <<>>, r)
        /\ UNCHANGED <<store, cred, passes, pc, locals, calls, trace, ctx, rc, latestRun, sf, cfg>>

HandleMessage ==
    \E content \in Contents, r \in SendResults :
        /\ args' = content
        /\ IF content[1] # Command
           THEN reply' = <<>> /\ bot' = Handled(<<>>, <<>>, NilErr)
           ELSE LET msg == IF Len(content) < 2 THEN Usage("<command>")
                           ELSE IF content[2] = "help" THEN <<"helpMessage">>
                           ELSE <<"Unknown command">>
                IN  reply' = msg /\ bot' = Handled(<<msg>>, <<>>, r)
        /\ UNCHANGED <<store, cred, passes, pc, locals, calls, trace, ctx, rc, latestRun, sf, cfg>>

\* bot.go:87-100 with BotCharacterService.AddCharacter (main.go:157-186): the
\* name and realm of the command are normalised and looked up at both
\* providers; the row inserted takes its id, name and realm from Provider A's
\* answer.  A lookup, the insert (the id is the primary key) or the table may
\* fail.
handleAddCharacter ==
    \E name \in CmdNames, realm \in CmdRealms, n \in 2 .. 4, got \in BOOLEAN, r \in SendResults :
        LET fname == formatName(name)
            frealm == formatRealm(realm)
            failed(call) == /\ reply' = FailedTo("add")
                            /\ bot' = Handled(<<FailedTo("add")>>, <<call>>, r)
                            /\ UNCHANGED store
        IN
        /\ args' = SubSeq(<<Command, "add", name, realm>>, 1, n)
        /\ IF n < 4
           THEN /\ reply' = Usage("add")
                /\ bot' = Handled(<<Usage("add")>>, <<>>, r)
                /\ UNCHANGED <<store, Bearer, Expires, now>>
           ELSE /\ bClientGet(got)
                /\ IF ~got
                   THEN failed(AddCall(fname, frealm, "failed", 0, "none", <<>>, "none",
                                       <<"blizzard error">>))
                   ELSE \/ failed(AddCall(fname, frealm, "ok", ProfileRating, "failed", <<>>,
                                          "none", <<"raiderio error">>))
                        \/ \E seasons \in SeasonSeqs :
                             \/ failed(AddCall(fname, frealm, "ok", ProfileRating, "ok",
                                               seasons, "failed", <<"database error">>))
                             \/ \E profile_ \in Profiles(fname, frealm) :
                                  LET current == CurrentSeason(seasons)
                                      c == [ID |-> profile_.ID, Name |-> profile_.Name,
                                            Realm |-> profile_.Slug, Class |-> "Mage",
                                            OverallScore |-> profile_.Rating,
                                            TankScore |-> current.Tank, DPSScore |-> current.Dps,
                                            HealScore |-> current.Healer, DateCreated |-> 1]
                                  IN  /\ \A k \in DOMAIN store : store[k].ID # c.ID
                                      /\ store' = RepoInsert(store, c)
                                      /\ reply' = NowTracking(fname, frealm)
                                      /\ bot' = Handled(<<NowTracking(fname, frealm)>>,
                                                        <<AddCall(fname, frealm, "ok", profile_.Rating,
                                                                  "ok", seasons, "ok", NilErr)>>, r)
        /\ UNCHANGED <<ID, Secret, passes, pc, locals, calls, trace, ctx, rc, latestRun, sf, cfg>>

\* bot.go:103-116 with BotCharacterService.RemoveCharacter (main.go:188-191):
\* the delete by the normalised name and realm; a delete that matches no row
\* is no error.
handleRemoveCharacter ==
    \E name \in CmdNames, realm \in CmdRealms, n \in 2 .. 4, r \in SendResults :
        LET fname == formatName(name)
            frealm == formatRealm(realm)
        IN
        /\ args' = SubSeq(<<Command, "remove", name, realm>>, 1, n)
        /\ IF n < 4
           THEN /\ reply' = Usage("remove")
                /\ bot' = Handled(<<Usage("remove")>>, <<>>, r)
                /\ UNCHANGED store
           ELSE \/ /\ reply' = FailedTo("remove")
                   /\ bot' = Handled(<<FailedTo("remove")>>,
                                     <<RemoveCall(fname, frealm, <<"database error">>)>>, r)
                   /\ UNCHANGED store
                \/ /\ store' = RepoDelete(store, fname, frealm)
                   /\ reply' = NoLongerTracking(fname, frealm)
                   /\ bot' = Handled(<<NoLongerTracking(fname, frealm)>>,
                                     <<RemoveCall(fname, frealm, NilErr)>>, r)
        /\ UNCHANGED <<cred, passes, pc, locals, calls, trace, ctx, rc, latestRun, sf, cfg>>

\* An empty table and a new, initialised client; no command handled yet.
InitBot ==
    /\ Init
    /\ store = <<>>
    /\ ID = "id"
    /\ Secret = "secret"

\* bot.go:60-84: one message at a time.
NextBot == HandleMessage \/ handleAddCharacter \/ handleRemoveCharacter

SpecBot == InitBot /\ [][NextBot]_vars

\* ------------------------------------------------ the update command
\* The two messages of handleUpdateCommand.
Progress == <<"Checking for updates...">>
FailedUpdate == <<"Failed to update scores">>

\* The pass that handleUpdateCommand started has returned.
PassReturned == passes > bot.base /\ pc[1] = "returned"

\* bot.go:142-146: the progress message is sent; when the send fails its
\* error is returned, otherwise the handler goes on to updater.Update.
handleUpdateCommand ==
    /\ bot.pc = "idle"
    /\ passes < MaxPasses
    /\ args' = <<Command, "update">>
    /\ reply' = Progress
    /\ \E r \in SendResults :
          bot' = IF r = NilErr
                 THEN [Handled(<<Progress>>, <<>>, r) EXCEPT !.pc = "Update"]
                 ELSE Handled(<<Progress>>, <<>>, r)
    /\ UNCHANGED <<store, cred, passes, pc, locals, calls, trace, ctx, rc, latestRun, sf, cfg>>

\* bot.go:147: b.updater.Update(ctx, channelID), the pass of Service.Update
\* run in the handler's goroutine.
updaterUpdate ==
    /\ bot.pc = "Update"
    /\ ~PassReturned
    /\ Step(1)

\* A handler that hands the error of the pass back to its caller.
handleUpdateReturn_passError ==
    /\ bot.pc = "Update"
    /\ PassReturned
    /\ bot' = [bot EXCEPT !.pc = "idle", !.ret = ret[1]]
    /\ UNCHANGED <<store, cred, passes, pc, locals, calls, trace, ctx, rc, latestRun,
                   args, reply, sf, cfg>>

\* bot.go:147-153: when the pass returned an error it is logged and the
\* failure message sent, whose result is returned; otherwise nil is returned.
handleUpdateReturn ==
    /\ bot.pc = "Update"
    /\ PassReturned
    /\ IF ret[1] # NilErr
       THEN /\ reply' = FailedUpdate
            /\ \E r \in SendResults :
                  bot' = [bot EXCEPT !.pc = "idle", !.sent = Append(@, <<FailedUpdate, r>>),
                                     !.ret = r]
       ELSE /\ bot' = [bot EXCEPT !.pc = "idle", !.ret = NilErr]
            /\ UNCHANGED reply
    /\ UNCHANGED <<store, cred, passes, pc, locals, calls, trace, ctx, rc, latestRun,
                   args, sf, cfg>>

\* One tracked character and an initialised client; no command handled yet.
InitUpdateCommand ==
    /\ Init
    /\ store = <<SeedRow(1, 0)>>
    /\ ID = "id"
    /\ Secret = "secret"

NextUpdateCommand == handleUpdateCommand \/ updaterUpdate \/ handleUpdateReturn

SpecUpdateCommand == InitUpdateCommand /\ [][NextUpdateCommand]_vars

\* ------------------------------------------------------- Config.merge
\* The most calls of merge made on one receiver.
MaxMerges == 2

\* The fields of Config whose zero value is "" and those whose zero value is 0.
StringFields == {"BlizzardClientID", "BlizzardClientSecret", "RaiderIOAccessKey",
                 "DiscordToken", "DiscordChannelID", "DatabaseLocation"}
IntFields == {"LogLevel", "UpdaterFrequency"}

\* The zero value of a field.
Zero(f) == IF f \in IntFields THEN 0 ELSE ""

\* Receivers (a parsed file) and arguments (defaults and the like): every field
\* is zero or set, and the set values of a receiver differ from an argument's.
Receivers ==
    [BlizzardClientID : {"", "id"}, BlizzardClientSecret : {"", "secret"},
     RaiderIOAccessKey : {"", "key"}, DiscordToken : {"", "token"},
     DiscordChannelID : {"", "channel"}, DatabaseLocation : {"", "file.sqlite"},
     LogLevel : {0, 4}, UpdaterFrequency : {0, 5}]
Arguments ==
    [BlizzardClientID : {"", "id2"}, BlizzardClientSecret : {"", "secret2"},
     RaiderIOAccessKey : {"", "key2"}, DiscordToken : {"", "token2"},
     DiscordChannelID : {"", "channel2"},
     DatabaseLocation : {"", "mythicplusdiscordbot.sqlite"},
     LogLevel : {0, -4}, UpdaterFrequency : {0, 30}]

\* A merge that lets the argument win wherever it is set.
merge_argumentWins(c, x) ==
    [c EXCEPT
        !.BlizzardClientID = IF x.BlizzardClientID # "" THEN x.BlizzardClientID ELSE @,
        !.BlizzardClientSecret = IF x.BlizzardClientSecret # "" THEN x.BlizzardClientSecret ELSE @,
        !.DiscordToken = IF x.DiscordToken # "" THEN x.DiscordToken ELSE @,
        !.DiscordChannelID = IF x.DiscordChannelID # "" THEN x.DiscordChannelID ELSE @,
        !.DatabaseLocation = IF x.DatabaseLocation # "" THEN x.DatabaseLocation ELSE @,
        !.UpdaterFrequency = IF x.UpdaterFrequency # 0 THEN x.UpdaterFrequency ELSE @]

\* config.go merge: each of six fields is taken from the argument when the
\* receiver holds its zero value; RaiderIOAccessKey and LogLevel are left alone.
merge(c, x) ==
    [c EXCEPT
        !.BlizzardClientID = IF @ = "" THEN x.BlizzardClientID ELSE @,
        !.BlizzardClientSecret = IF @ = "" THEN x.BlizzardClientSecret ELSE @,
        !.DiscordToken = IF @ = "" THEN x.DiscordToken ELSE @,
        !.DiscordChannelID = IF @ = "" THEN x.DiscordChannelID ELSE @,
        !.DatabaseLocation = IF @ = "" THEN x.DatabaseLocation ELSE @,
        !.UpdaterFrequency = IF @ = 0 THEN x.UpdaterFrequency ELSE @]

\* c.merge(arg) is called on the receiver; the receiver as it was at first and
\* as the first call left it are kept.
callMerge ==
    /\ cfg.n < MaxMerges
    /\ cfg' = [cfg EXCEPT !.c = merge(cfg.c, cfg.arg),
                          !.once = IF cfg.n = 0 THEN merge(cfg.c, cfg.arg) ELSE @,
                          !.n = @ + 1]
    /\ UNCHANGED <<store, cred, passes, pc, locals, calls, trace, ctx, rc, latestRun,
                   args, reply, bot, sf>>

InitMerge ==
    /\ Constructed
    /\ store = <<>>
    /\ ID = "id"
    /\ Secret = "secret"
    /\ rc = <<>>
    /\ latestRun = <<>>
    /\ args = <<>>
    /\ reply = <<>>
    /\ bot = NoMessage
    /\ sf = <<>>
    /\ cfg \in {[c |-> c, arg |-> x, start |-> c, once |-> c, n |-> 0] :
                   c \in Receivers, x \in Arguments}

NextMerge == callMerge

SpecMerge == InitMerge /\ [][NextMerge]_vars

\* ================================================================ properties
\* The character of the listing of goroutine p with the given ID (the primary key).
Listed(p, ch) == CHOOSE c \in {characters[p][k] : k \in DOMAIN characters[p]} : c.ID = ch

\* The row of the table with the given ID.
Row(ch) == CHOOSE r \in {store[k] : k \in DOMAIN store} : r.ID = ch

\* Calls made for the current character of goroutine p.
Has(p, op) == \E k \in DOMAIN calls[p] : calls[p][k].op = op
HasOk(p, op) == \E k \in DOMAIN calls[p] : calls[p][k].op = op /\ calls[p][k].ok
HasFail(p, op) == \E k \in DOMAIN calls[p] : calls[p][k].op = op /\ ~calls[p][k].ok
Count(p, op) == Cardinality({k \in DOMAIN calls[p] : calls[p][k].op = op})

\* Calls made by the current pass of goroutine p.
TraceCount(p, op) == Cardinality({k \in DOMAIN trace[p] : trace[p][k][1] = op})
TraceCountFor(p, op, ch) ==
    Cardinality({k \in DOMAIN trace[p] : trace[p][k][1] = op /\ trace[p][k][2] = ch})

\* The listing of the current pass of goroutine p succeeded / failed.
ListingOk(p) == trace[p] # <<>> /\ trace[p][1] = <<OpList, 0, TRUE, 0>>
ListingFailed(p) == trace[p] # <<>> /\ trace[p][1] = <<OpList, 0, FALSE, 0>>

\* Provider A answered for the current character with a rating equal to /
\* different from the overall score the listing gave.
FetchedUnchanged(p) ==
    \E k \in DOMAIN calls[p] :
        /\ calls[p][k].op = OpA /\ calls[p][k].ok
        /\ calls[p][k].arg = Listed(p, calls[p][k].ch).OverallScore
FetchedChanged(p) ==
    \E k \in DOMAIN calls[p] :
        /\ calls[p][k].op = OpA /\ calls[p][k].ok
        /\ calls[p][k].arg # Listed(p, calls[p][k].ch).OverallScore

\* The same, for character ch, over the whole pass.
PassUnchanged(p, ch) == <<OpA, ch, TRUE, Listed(p, ch).OverallScore>> \in {trace[p][k] : k \in DOMAIN trace[p]}
PassChanged(p, ch) ==
    \E k \in DOMAIN trace[p] :
        /\ trace[p][k][1] = OpA /\ trace[p][k][2] = ch /\ trace[p][k][3]
        /\ trace[p][k][4] # Listed(p, ch).OverallScore

\* updateCharacter is over for the current character of goroutine p and Update
\* is at the head of its loop again, or has returned.
CharacterDone(p) == pc[p] \in {"range", "returned"} /\ calls[p] # <<>>

\* Every listed character has been handed to updateCharacter, which returned.
AllAttempted(p) ==
    \A k \in DOMAIN characters[p] : TraceCountFor(p, OpReturn, characters[p][k].ID) = 1

\* C1: for a character whose Provider A rating equals its stored overall score,
\* the pass makes no Provider B fetch, no store update and no notification.
C1_UnchangedDoesNothing ==
    \A p \in Procs : FetchedUnchanged(p) =>
        /\ ~Has(p, OpB) /\ ~Has(p, OpUpdate) /\ ~Has(p, OpNotify)
        /\ \A op \in {OpB, OpUpdate, OpNotify} : TraceCountFor(p, op, character[p].ID) = 0
        /\ Row(character[p].ID) = Listed(p, character[p].ID)

\* An unchanged character has been processed to the end.
C1_Witness ==
    \E p \in Procs : FetchedUnchanged(p) /\ CharacterDone(p)

\* C2: for a changed character whose Provider B fetch succeeds, the store
\* update is called exactly once, with overall = the Provider A rating and
\* tank/heal/dps = the tank/healer/dps of the first season of the B profile.
C2_OneUpdateWithMergedValues ==
    \A p \in Procs : \A i, j \in DOMAIN calls[p] :
        ( /\ calls[p][i].op = OpA /\ calls[p][i].ok
          /\ calls[p][i].arg # Listed(p, calls[p][i].ch).OverallScore
          /\ calls[p][j].op = OpB /\ calls[p][j].ok
          /\ pc[p] # "UpdateCharacter" )
        => /\ Count(p, OpUpdate) = 1
           /\ TraceCountFor(p, OpUpdate, calls[p][i].ch) = 1
           /\ \E k \in DOMAIN calls[p] :
                /\ calls[p][k].op = OpUpdate
                /\ calls[p][k].ch = calls[p][i].ch
                /\ calls[p][k].scores[1] = calls[p][i].arg
                /\ Len(calls[p][j].seasons) > 0 =>
                      calls[p][k].scores = <<calls[p][i].arg,
                                             calls[p][j].seasons[1].Tank,
                                             calls[p][j].seasons[1].Healer,
                                             calls[p][j].seasons[1].Dps>>

\* A changed character with a two-season B profile has been updated.
C2_Witness ==
    \E p \in Procs :
        /\ FetchedChanged(p) /\ HasOk(p, OpUpdate) /\ CharacterDone(p)
        /\ \E j \in DOMAIN calls[p] : calls[p][j].op = OpB /\ Len(calls[p][j].seasons) = 2

\* C3: any fetched rating different from the stored overall score, a lower
\* one or 0 included, starts the update sequence: Provider B fetch, then the
\* store update, then the notification.
C3_AnyDifferenceStartsUpdate ==
    \A p \in Procs : FetchedChanged(p) =>
        /\ pc[p] \notin {"compare", "GetCharacter"} => Count(p, OpB) = 1
        /\ (HasOk(p, OpB) /\ pc[p] # "UpdateCharacter") => Count(p, OpUpdate) = 1
        /\ (HasOk(p, OpUpdate) /\ pc[p] # "SendComplexMessage") => Count(p, OpNotify) = 1

\* Season reset: stored 1234.5, fetched 0, and the notification went out.
C3_Witness ==
    \E p \in Procs : \E k \in DOMAIN calls[p] :
        /\ calls[p][k].op = OpA /\ calls[p][k].ok /\ calls[p][k].arg = 0
        /\ Listed(p, calls[p][k].ch).OverallScore = 12345
        /\ HasOk(p, OpNotify)
        /\ Row(calls[p][k].ch).OverallScore = 0

\* An error whose wrap chain holds the message msg.
Contains(e, msg) == \E k \in DOMAIN e : e[k] = msg

\* C4: when the listing fails the pass returns at once an error containing
\* "failed to list characters" and makes no Provider A call, no Provider B
\* call, no store update, no notification and no pause.
C4_ListingFailureIsFatal ==
    \A p \in Procs : ListingFailed(p) =>
        /\ pc[p] = "returned"
        /\ Contains(ret[p], "failed to list characters")
        /\ Len(trace[p]) = 1
        /\ calls[p] = <<>>

\* A pass has failed to list although the table holds characters.
C4_Witness ==
    \E p \in Procs : ListingFailed(p) /\ pc[p] = "returned" /\ Len(store) = 2

\* C5: whenever the listing succeeds the pass returns nil, whatever
\* per-character step fails and for however many characters.
C5_CharacterFailuresNeverFailThePass ==
    \A p \in Procs : (ListingOk(p) /\ pc[p] = "returned") =>
        /\ ret[p] = NilErr
        /\ AllAttempted(p)

\* A pass has returned after both of its characters failed.
C5_Witness ==
    \E p \in Procs :
        /\ ListingOk(p) /\ pc[p] = "returned" /\ Len(characters[p]) = 2
        /\ \A k \in DOMAIN characters[p] :
              <<OpReturn, characters[p][k].ID, FALSE, 0>> \in {trace[p][i] : i \in DOMAIN trace[p]}
        /\ TraceCount(p, OpNotify) = 1 /\ TraceCount(p, OpB) = 2

\* The number of pauses of the current pass of goroutine p.
Pauses(p) == TraceCount(p, OpSleep)

\* C6 as stated: no pause is invoked for a character whose fetched rating
\* equals its stored score; an all-unchanged pass pauses zero times and a pass
\* over two characters of which only one changed pauses exactly once.
C6_Original ==
    \A p \in Procs :
        /\ FetchedUnchanged(p) => ~Has(p, OpSleep)
        /\ (ListingOk(p) /\ pc[p] = "returned") =>
              /\ (\A k \in DOMAIN characters[p] : PassUnchanged(p, characters[p][k].ID))
                    => Pauses(p) = 0
              /\ \A u, c \in DOMAIN characters[p] :
                    (/\ Len(characters[p]) = 2
                     /\ PassUnchanged(p, characters[p][u].ID)
                     /\ PassChanged(p, characters[p][c].ID))
                    => Pauses(p) = 1

\* C6 as amended: the pause is invoked exactly once for a character whose
\* fetched rating equals its stored score; an all-unchanged pass pauses once
\* per character, and a pass over two characters of which only one changed
\* pauses once for the unchanged one and once more exactly when the changed
\* one's update sequence returned no error.
C6_PauseAfterUnchanged ==
    \A p \in Procs :
        /\ (FetchedUnchanged(p) /\ pc[p] \notin {"compare", "sleep"}) =>
              /\ Count(p, OpSleep) = 1
              /\ calls[p][Len(calls[p])] = Call(OpSleep, character[p].ID, TRUE, cooldownTime, NoScores)
        /\ (ListingOk(p) /\ pc[p] = "returned") =>
              /\ (\A k \in DOMAIN characters[p] : PassUnchanged(p, characters[p][k].ID))
                    => Pauses(p) = Len(characters[p])
              /\ \A u, c \in DOMAIN characters[p] :
                    (/\ Len(characters[p]) = 2
                     /\ PassUnchanged(p, characters[p][u].ID)
                     /\ PassChanged(p, characters[p][c].ID))
                    => /\ TraceCountFor(p, OpSleep, characters[p][u].ID) = 1
                       /\ Pauses(p) = 1 + TraceCountFor(p, OpNotify, characters[p][c].ID)
                                        - Cardinality({k \in DOMAIN trace[p] :
                                              trace[p][k] = <<OpNotify, characters[p][c].ID, FALSE, trace[p][k][4]>>})

\* A pass over two characters, one unchanged and one changed and notified, has
\* returned after two pauses.
C6_Witness ==
    \E p \in Procs :
        /\ ListingOk(p) /\ pc[p] = "returned" /\ Len(characters[p]) = 2
        /\ \E u, c \in DOMAIN characters[p] :
              /\ PassUnchanged(p, characters[p][u].ID)
              /\ PassChanged(p, characters[p][c].ID)
              /\ TraceCountFor(p, OpNotify, characters[p][c].ID) = 1
        /\ Pauses(p) = 2

\* C7 as stated: when a character's store update succeeds and its
\* notification send fails, the pause is still invoked exactly once for that
\* character before the next character is started.
C7_Original ==
    \A p \in Procs :
        (HasOk(p, OpUpdate) /\ HasFail(p, OpNotify) /\ CharacterDone(p)) => Count(p, OpSleep) = 1

\* C7 as amended: when a character's store update succeeds and its
\* notification send fails, updateCharacter returns the send error, the pause
\* is not invoked for that character and the loop continues with the next one.
C7_NoPauseAfterSendFailure ==
    \A p \in Procs :
        (HasOk(p, OpUpdate) /\ HasFail(p, OpNotify)) =>
            /\ Count(p, OpSleep) = 0
            /\ TraceCountFor(p, OpSleep, character[p].ID) = 0
            /\ pc[p] \in {"failed", "range", "returned"}
            /\ pc[p] = "failed" => Contains(err[p], "failed to send message")
            /\ calls[p][Len(calls[p])] = Returns(p, FALSE)

\* A character's update was stored, its notification failed, and the loop has
\* moved on.
C7_Witness ==
    \E p \in Procs :
        /\ HasOk(p, OpUpdate) /\ HasFail(p, OpNotify) /\ CharacterDone(p)
        /\ Row(character[p].ID).OverallScore # Listed(p, character[p].ID).OverallScore

\* C8: Sleep(250ms) is invoked exactly once after each character whose
\* processing returned no error, an unchanged one included, and not after a
\* character whose processing returned an error, a notification send error
\* included; the pauses of a pass number the characters processed without error.
C8_PauseIffNoError ==
    \A p \in Procs :
        /\ \A k \in DOMAIN trace[p] :
              /\ trace[p][k][1] = OpSleep =>
                    /\ k > 1
                    /\ trace[p][k - 1] = <<OpReturn, trace[p][k][2], TRUE, 0>>
                    /\ trace[p][k][4] = 250
              /\ (trace[p][k][1] = OpReturn /\ trace[p][k][3]) =>
                    IF k = Len(trace[p]) THEN pc[p] = "sleep"
                    ELSE trace[p][k + 1] = <<OpSleep, trace[p][k][2], TRUE, 250>>
              /\ (trace[p][k][1] = OpReturn /\ ~trace[p][k][3]) =>
                    IF k = Len(trace[p]) THEN pc[p] # "sleep"
                    ELSE trace[p][k + 1][1] # OpSleep
        /\ \A k \in DOMAIN characters[p] :
              TraceCountFor(p, OpSleep, characters[p][k].ID) <= 1
        /\ pc[p] \in {"range", "returned"} =>
              Pauses(p) = Cardinality({k \in DOMAIN trace[p] :
                              trace[p][k][1] = OpReturn /\ trace[p][k][3]})

\* A pass over two characters has returned after one pause: one character was
\* unchanged, the other's notification failed.
C8_Witness ==
    \E p \in Procs :
        /\ ListingOk(p) /\ pc[p] = "returned" /\ Len(characters[p]) = 2
        /\ \E u \in DOMAIN characters[p] : PassUnchanged(p, characters[p][u].ID)
        /\ \E k \in DOMAIN trace[p] : trace[p][k][1] = OpNotify /\ ~trace[p][k][3]
        /\ Pauses(p) = 1

\* The Provider A fetch of the current character of goroutine p failed: the
\* client is not initialised, the credential refresh failed or the GET failed.
ProviderAFailed(p) ==
    \/ HasFail(p, OpToken)
    \/ HasFail(p, OpA)
    \/ (HasFail(p, OpReturn) /\ ~Has(p, OpToken) /\ ~Has(p, OpA))

\* C9: when the Provider A fetch fails for a character, a failure of the
\* credential refresh inside it included, that character gets no Provider B
\* fetch, no store update, no notification and no pause in this pass, and the
\* pass goes on to the next character.
C9_ProviderAFailureSkipsCharacter ==
    \A p \in Procs :
        /\ ProviderAFailed(p) =>
              /\ \A op \in {OpB, OpUpdate, OpNotify, OpSleep} :
                    Count(p, op) = 0 /\ TraceCountFor(p, op, character[p].ID) = 0
              /\ HasFail(p, OpToken) => ~Has(p, OpA)
              /\ Row(character[p].ID) = Listed(p, character[p].ID)
              /\ pc[p] \in {"failed", "range", "returned"}
              /\ pc[p] = "failed" => Contains(err[p], "failed to get mythic profile")
              /\ pc[p] = "range" => idx[p] = 1 + TraceCount(p, OpReturn)
        /\ (ListingOk(p) /\ pc[p] = "returned") => AllAttempted(p)

\* The credential refresh failed for the first of two characters and the
\* second one has been fetched.
C9_Witness ==
    \E p \in Procs :
        /\ Len(characters[p]) = 2 /\ idx[p] = 2 /\ HasOk(p, OpA)
        /\ <<OpToken, characters[p][1].ID, FALSE, 0>> \in {trace[p][k] : k \in DOMAIN trace[p]}

\* C10: when the Provider B fetch fails for a changed character the store
\* update is not called (the stored record keeps all four old scores), no
\* notification is sent, no pause is invoked, and the pass goes on to the next
\* character.
C10_ProviderBFailureSkipsCharacter ==
    \A p \in Procs :
        HasFail(p, OpB) =>
            /\ \A op \in {OpUpdate, OpNotify, OpSleep} :
                  Count(p, op) = 0 /\ TraceCountFor(p, op, character[p].ID) = 0
            /\ ScoresOf(Row(character[p].ID)) = ScoresOf(Listed(p, character[p].ID))
            /\ FetchedChanged(p)
            /\ pc[p] \in {"failed", "range", "returned"}
            /\ pc[p] = "failed" => Contains(err[p], "failed to get character")
            /\ pc[p] = "range" => idx[p] = 1 + TraceCount(p, OpReturn)
            /\ pc[p] = "returned" => AllAttempted(p)

\* The Provider B fetch failed for the first of two characters and the second
\* one has been fetched.
C10_Witness ==
    \E p \in Procs :
        /\ Len(characters[p]) = 2 /\ idx[p] = 2 /\ HasOk(p, OpA)
        /\ <<OpB, characters[p][1].ID, FALSE, 0>> \in {trace[p][k] : k \in DOMAIN trace[p]}
        /\ Row(characters[p][1].ID) = characters[p][1]

\* C11: when the store update fails for a changed character, no notification
\* is sent for that character, no pause is invoked, and the pass goes on to the
\* next character.
C11_StoreFailureSkipsNotification ==
    \A p \in Procs :
        HasFail(p, OpUpdate) =>
            /\ FetchedChanged(p)
            /\ \A op \in {OpNotify, OpSleep} :
                  Count(p, op) = 0 /\ TraceCountFor(p, op, character[p].ID) = 0
            /\ pc[p] \in {"failed", "range", "returned"}
            /\ pc[p] = "failed" => Contains(err[p], "failed to update character score")
            /\ calls[p][Len(calls[p])] = Returns(p, FALSE)
            /\ pc[p] = "range" => idx[p] = 1 + TraceCount(p, OpReturn)
            /\ pc[p] = "returned" => AllAttempted(p)

\* The store update failed for the first of two characters and the second one
\* has been fetched.
C11_Witness ==
    \E p \in Procs :
        /\ Len(characters[p]) = 2 /\ idx[p] = 2 /\ HasOk(p, OpA)
        /\ \E k \in DOMAIN trace[p] : trace[p][k] = <<OpUpdate, characters[p][1].ID, FALSE, 0>>
        /\ TraceCountFor(p, OpNotify, characters[p][1].ID) = 0

\* The place of a call in the sequence of one character.
Rank(op) ==
    CASE op = OpToken -> 0
      [] op = OpA -> 1
      [] op = OpB -> 2
      [] op = OpUpdate -> 3
      [] op = OpNotify -> 4
      [] op = OpReturn -> 5
      [] op = OpSleep -> 6

\* The calls of the current character of goroutine p on the providers, the
\* store, the notifier and the sleeper, in the order they were made.
Sequence(p) ==
    LET ks == {k \in DOMAIN calls[p] : calls[p][k].op \notin {OpToken, OpReturn}}
        RECURSIVE Sel(_)
        Sel(k) == IF k = 0 THEN <<>>
                  ELSE IF k \in ks THEN Append(Sel(k - 1), calls[p][k].op)
                  ELSE Sel(k - 1)
    IN Sel(Len(calls[p]))

\* C12: for a changed character the calls happen in the order Provider A
\* fetch, Provider B fetch, store update, notification send, pause; a
\* notification is never sent before the store update of its character has
\* succeeded.
C12_CallOrder ==
    \A p \in Procs :
        /\ \A i, j \in DOMAIN calls[p] : i < j => Rank(calls[p][i].op) < Rank(calls[p][j].op)
        /\ \A j \in DOMAIN calls[p] : calls[p][j].op = OpNotify =>
              \E i \in 1..(j - 1) :
                  /\ calls[p][i].op = OpUpdate /\ calls[p][i].ok
                  /\ calls[p][i].ch = calls[p][j].ch
                  /\ Row(calls[p][j].ch).OverallScore = calls[p][j].scores[1]
        /\ (FetchedChanged(p) /\ Has(p, OpSleep)) =>
              Sequence(p) = <<OpA, OpB, OpUpdate, OpNotify, OpSleep>>
        /\ \A k \in DOMAIN trace[p] : trace[p][k][1] = OpNotify =>
              \E i \in 1..(k - 1) : trace[p][i] = <<OpUpdate, trace[p][k][2], TRUE, 0>>

\* A changed character has gone through its whole sequence, pause included.
C12_Witness ==
    \E p \in Procs :
        /\ FetchedChanged(p) /\ CharacterDone(p)
        /\ Sequence(p) = <<OpA, OpB, OpUpdate, OpNotify, OpSleep>>

\* The index in the listing of goroutine p of the character with the given ID.
Position(p, ch) == CHOOSE k \in DOMAIN characters[p] : characters[p][k].ID = ch

\* Provider A was called for character ch in the current pass of goroutine p:
\* updateCharacter ran for it, and GetMythicKeystoneProfile is its first
\* statement.  The number of those calls that have returned to Update.
ProviderACalls(p, ch) == TraceCountFor(p, OpReturn, ch)

\* C13: when the listing succeeds the pass calls Provider A exactly once for
\* every listed character, in the order the store returned them, finishes
\* every step of character i before starting any step of character i+1, and
\* terminates after the last character.
C13_SequentialInListingOrder ==
    \A p \in Procs : ListingOk(p) =>
        /\ \A k \in 2..Len(trace[p]) :
              /\ \E i \in DOMAIN characters[p] : characters[p][i].ID = trace[p][k][2]
              /\ k > 2 => Position(p, trace[p][k - 1][2]) <= Position(p, trace[p][k][2])
              /\ (k > 2 /\ trace[p][k - 1][2] # trace[p][k][2]) =>
                    /\ trace[p][k - 1][1] \in {OpReturn, OpSleep}
                    /\ Position(p, trace[p][k][2]) = Position(p, trace[p][k - 1][2]) + 1
        /\ \A i \in DOMAIN characters[p] :
              /\ TraceCountFor(p, OpA, characters[p][i].ID) <= 1
              /\ ProviderACalls(p, characters[p][i].ID) =
                    (IF i < idx[p] \/ (i = idx[p] /\ pc[p] \in {"failed", "sleep"}) THEN 1 ELSE 0)
        /\ idx[p] <= Len(characters[p]) + 1
        /\ Len(calls[p]) <= 7
        /\ pc[p] = "returned" =>
              /\ idx[p] = Len(characters[p]) + 1
              /\ AllAttempted(p)
              /\ ret[p] = NilErr
              /\ Len(characters[p]) > 0 =>
                    trace[p][Len(trace[p])][2] = characters[p][Len(characters[p])].ID

\* A pass over two characters with different scores has returned after
\* sending the profile GET for both.
C13_Witness ==
    \E p \in Procs :
        /\ ListingOk(p) /\ pc[p] = "returned" /\ Len(characters[p]) = 2
        /\ characters[p][1].OverallScore # characters[p][2].OverallScore
        /\ characters[p][1].ID = 2
        /\ TraceCount(p, OpA) = 2

\* C14 as stated: checkClient issues no token request when the token is
\* non-empty and now + 5min is before the recorded expiry, and issues exactly
\* one token request per call otherwise.
C14_Original ==
    \A p \in Procs :
        /\ pc[p] = "getBearerToken" => (Bearer = "" \/ ~(now + expiryBuffer < Expires))
        /\ (pc[p] = "sendRequest" /\ ~Has(p, OpToken)) =>
              (Bearer # "" /\ now + expiryBuffer < Expires)
        /\ Count(p, OpToken) <= 1
        /\ pc[p] \in {"setBearer", "setExpires"} => Count(p, OpToken) = 1

\* A token obtained at 0 with expires_in = 3600 has been checked at 3300 and
\* the profile GET is about to go out with no token request made.
C14_Witness ==
    \E p \in Procs :
        /\ pc[p] = "sendRequest" /\ ~Has(p, OpToken)
        /\ Bearer = "t1" /\ Expires = 3600 /\ now = 3300

\* C15 as stated: checkClient refreshes the token when now + 5min is equal to
\* the recorded expiry: a token obtained at T with expires_in = 3600 and
\* checked at exactly T + 3300 is refreshed.
C15_Original ==
    \A p \in Procs :
        (/\ pc[p] \in {"sendRequest", "compare", "failed"}
         /\ Has(p, OpA) \/ pc[p] = "sendRequest"
         /\ Bearer # "" /\ now + expiryBuffer = Expires)
        => Has(p, OpToken)

\* The profile GET went out with the token obtained at 0 with
\* expires_in = 3600, checked at 3300, and no token request was made.
C15_Witness ==
    \E p \in Procs : \E k \in DOMAIN calls[p] :
        /\ calls[p][k].op = OpA /\ calls[p][k].bearer = "t1"
        /\ ~Has(p, OpToken)
        /\ Expires = 3600 /\ now = 3300

\* C16 as stated: whenever the authenticated profile GET is sent, the recorded
\* expiry of the bearer token is more than 5 minutes after the instant of the
\* check, for every expires_in the token endpoint returns.  The instant of
\* the check is the instant checkClient read, or, when the bearer was empty
\* and no instant was read, no earlier than the last instant read before.
C16_Original ==
    [][\A p \in Procs :
          /\ (pc[p] = "checkClient" /\ pc'[p] = "sendRequest") =>
                Expires' > now' + expiryBuffer
          /\ (pc[p] = "setExpires" /\ pc'[p] = "sendRequest") =>
                Expires' > now + expiryBuffer]_vars

\* The profile GET went out with a token obtained in the same call with
\* expires_in = 0: its recorded expiry is the instant it was obtained.
C16_Witness ==
    \E p \in Procs : \E k \in DOMAIN calls[p] :
        /\ calls[p][k].op = OpA /\ calls[p][k].bearer = "t1"
        /\ HasOk(p, OpToken) /\ authResp[p].ExpiresIn = 0
        /\ Expires = now

\* C17: when the credential exchange fails (transport error, non-200 status
\* or undecodable body) the token and the expiry are left as they were before
\* the call, the error is returned, and no profile GET is sent in that call.
C17_FailedRefreshKeepsToken ==
    /\ [](\A p \in Procs : HasFail(p, OpToken) =>
              /\ ~Has(p, OpA) /\ ~HasOk(p, OpToken)
              /\ TraceCountFor(p, OpA, character[p].ID) = 0
              /\ pc[p] \in {"failed", "range", "returned"}
              /\ pc[p] = "failed" =>
                    \E f \in HTTPFailures : err[p] = <<"failed to get mythic profile", TokenErr(f)>>
              /\ calls[p] = <<Call(OpToken, character[p].ID, FALSE, 0, NoScores), Returns(p, FALSE)>>)
    /\ [][\A p \in Procs : HasFail(p, OpToken)' => (Bearer' = Bearer /\ Expires' = Expires)]_vars

\* The refresh of a token obtained at 0 with expires_in = 3600 has failed and
\* the token and its expiry are still in place.
C17_Witness ==
    \E p \in Procs :
        /\ HasFail(p, OpToken) /\ pc[p] = "failed"
        /\ Bearer = "t1" /\ Expires = 3600 /\ now = 3600

\* C18: with an empty client id or an empty client secret, checkClient and
\* GetMythicKeystoneProfile fail with the not-initialised error, make no
\* token request and no profile GET, and leave token and expiry unchanged.
C18_NotInitialisedMakesNoRequest ==
    /\ [](\A p \in Procs : (ID = "" \/ Secret = "") =>
              /\ TraceCount(p, OpToken) = 0 /\ TraceCount(p, OpA) = 0
              /\ calls[p] \in {<<>>, <<Returns(p, FALSE)>>}
              /\ pc[p] \in {"idle", "range", "checkClient", "failed", "returned"}
              /\ pc[p] = "failed" =>
                    err[p] = <<"failed to get mythic profile", "client is not initialised">>)
    /\ [][(ID = "" \/ Secret = "") => (Bearer' = Bearer /\ Expires' = Expires)]_vars

\* A pass over two characters with a client id but no secret has returned:
\* both characters were refused and nothing went out.
C18_Witness ==
    \E p \in Procs :
        /\ ID = "id" /\ Secret = ""
        /\ pc[p] = "returned" /\ Len(characters[p]) = 2
        /\ TraceCount(p, OpReturn) = 2 /\ Len(trace[p]) = 3

\* Positions of GetMythicKeystoneProfile after checkClient has returned nil
\* and of updateCharacter after GetMythicKeystoneProfile has returned.
AfterCheck == {"sendRequest", "compare", "GetCharacter", "UpdateCharacter",
               "SendComplexMessage", "sleep", "failed"}

\* C19: after a successful credential exchange the token equals the
\* response's access_token and the expiry equals the time source's now plus
\* expires_in seconds; a refresh replaces both, never only one of the two.
C19_RefreshReplacesTokenAndExpiry ==
    /\ [](\A p \in Procs : (HasOk(p, OpToken) /\ pc[p] \in AfterCheck) =>
              /\ Bearer = authResp[p].AccessToken
              /\ Expires = now + authResp[p].ExpiresIn)
    /\ [][\A p \in Procs :
              /\ pc[p] = "setBearer" => pc'[p] = "setExpires"
              /\ pc[p] = "setExpires" =>
                    /\ pc'[p] = "sendRequest"
                    /\ Bearer' = authResp[p].AccessToken
                    /\ Expires' = now' + authResp[p].ExpiresIn
              /\ (\A q \in Procs : pc[q] \notin {"setBearer", "setExpires"}) =>
                    (Bearer' = Bearer /\ Expires' = Expires)]_vars

\* A token obtained at 0 has been replaced at 3600 by one with
\* expires_in = 3600 and the profile GET has gone out with it.
C19_Witness ==
    \E p \in Procs :
        /\ HasOk(p, OpToken) /\ HasOk(p, OpA) /\ pc[p] = "compare"
        /\ TraceCount(p, OpToken) = 2
        /\ Bearer = "t1" /\ now = 3600 /\ Expires = 7200

\* C20: one GetMythicKeystoneProfile call issues at most one token request
\* and at most one profile GET; a transport failure, a non-200 response or an
\* undecodable body yields an error and no profile, and the call is not made
\* again for the same character in the same pass.
C20_NoRetry ==
    \A p \in Procs :
        /\ Count(p, OpToken) <= 1 /\ Count(p, OpA) <= 1
        /\ \A k \in DOMAIN characters[p] :
              /\ TraceCountFor(p, OpToken, characters[p][k].ID) <= 1
              /\ TraceCountFor(p, OpA, characters[p][k].ID) <= 1
              /\ TraceCountFor(p, OpReturn, characters[p][k].ID) <= 1
        /\ HasFail(p, OpA) =>
              /\ profile[p] = 0
              /\ \A op \in {OpB, OpUpdate, OpNotify, OpSleep} : ~Has(p, op)
              /\ pc[p] \in {"failed", "range", "returned"}
              /\ pc[p] = "failed" =>
                    \E f \in HTTPFailures : err[p] = <<"failed to get mythic profile", ProfileErr(f)>>
              /\ calls[p][Len(calls[p])] = Returns(p, FALSE)
              /\ calls[p][Len(calls[p]) - 1].op = OpA

\* A pass over two characters has returned after the profile GET failed for
\* both: two GETs went out in all.
C20_Witness ==
    \E p \in Procs :
        /\ ListingOk(p) /\ pc[p] = "returned" /\ Len(characters[p]) = 2
        /\ \A k \in DOMAIN characters[p] :
              \E i \in DOMAIN trace[p] : trace[p][i] = <<OpA, characters[p][k].ID, FALSE, 0>>
        /\ TraceCount(p, OpA) = 2


\* Goroutine p is inside the refresh of the credential: between the decision
\* of checkClient to refresh and the write of Expires.
Refreshing(p) == pc[p] \in {"getBearerToken", "setBearer", "setExpires"}

\* Goroutine p takes the step that reads Bearer (and, in checkClient,
\* Expires): the test of checkClient or the building of the GET's header.
ReadsCredential(p) == pc[p] \in {"checkClient", "sendRequest"} /\ pc'[p] # pc[p]

\* C21 as stated: check-and-refresh of the credential is mutually exclusive
\* between two concurrent passes: two callers are never inside the refresh at
\* once, and no caller reads the token or the expiry while another caller
\* has written the token and not yet the expiry.
C21_Original ==
    /\ [](\A p, q \in Procs : (Refreshing(p) /\ Refreshing(q)) => p = q)
    /\ [][\A p, q \in Procs :
            (p # q /\ pc[q] = "setExpires") => ~ReadsCredential(p)]_vars

\* Goroutine 1 refreshed the credential and was given the token "t1", and
\* then sent its GET with the empty token goroutine 2 wrote afterwards,
\* while goroutine 2 has not yet written the expiry of that token.
C21_Witness ==
    /\ pc[2] = "setExpires"
    /\ pc[1] = "compare"
    /\ Bearer = ""
    /\ authResp[2].AccessToken = ""
    /\ authResp[1].AccessToken = "t1"
    /\ \E k \in DOMAIN calls[1] :
           calls[1][k].op = OpA /\ calls[1][k].ok /\ calls[1][k].bearer = ""

\* Both goroutines have run one pass each to its end and no other pass has
\* run, with every call of both successful.
BothPassesSucceeded ==
    /\ passes = Cardinality(Procs)
    /\ \A p \in Procs : pc[p] = "returned" /\ ListingOk(p)
    /\ \A p \in Procs : \A k \in DOMAIN calls[p] : calls[p][k].ok

\* The providers answered both passes alike: Provider A with rating r,
\* Provider B, where it was asked, with the seasons ss.
ConstantResponses(r, ss) ==
    \A p \in Procs : \A k \in DOMAIN calls[p] :
        /\ calls[p][k].op = OpA => calls[p][k].arg = r
        /\ calls[p][k].op = OpB => calls[p][k].seasons = ss

\* The <<overall, tank, heal, dps>> of row c after one pass alone in which
\* Provider A answers r and Provider B answers ss.
AfterSinglePass(c, r, ss) ==
    IF r = c.OverallScore THEN ScoresOf(c)
    ELSE IF ss = <<>> THEN <<r, 0, 0, 0>>
    ELSE <<r, ss[1].Tank, ss[1].Healer, ss[1].Dps>>

\* C22: when two passes overlap on the same table while the providers'
\* responses stay constant and all calls succeed, the stored scores of the
\* character at the end are those a single pass would have left.
C22_OverlapLeavesSinglePassScores ==
    \A r \in Ratings, ss \in SeasonSeqs :
        (BothPassesSucceeded /\ ConstantResponses(r, ss)) =>
            ScoresOf(Row(1)) = AfterSinglePass(SeedRow(1, 0), r, ss)

\* Two passes overlapped: both listed the character with its old score,
\* both were answered the same new rating and season, and both wrote the row.
C22_Witness ==
    /\ BothPassesSucceeded
    /\ ConstantResponses(12345, <<SeasonA, SeasonB>>)
    /\ \A p \in Procs : Listed(p, 1).OverallScore = 0 /\ HasOk(p, OpUpdate)
    /\ ScoresOf(Row(1)) = <<12345, SeasonA.Tank, SeasonA.Healer, SeasonA.Dps>>

\* Notifications sent for the tracked character by the passes of both
\* goroutines.
Notifications == Count(1, OpNotify) + Count(2, OpNotify)

\* C23 as stated: when two passes overlap while the providers' responses stay
\* constant, the one score change is sent to the Notifier at most once, as a
\* single pass would do.
C23_Original ==
    \A r \in Ratings, ss \in SeasonSeqs :
        (passes = Cardinality(Procs) /\ (\A p \in Procs : ListingOk(p))
            /\ ConstantResponses(r, ss)) => Notifications <= 1

\* Two passes overlapped and each announced the same change of the same
\* character, from the same old score to the same new scores.
C23_Witness ==
    /\ passes = Cardinality(Procs)
    /\ ConstantResponses(12345, <<>>)
    /\ \A p \in Procs : \E k \in DOMAIN calls[p] :
           /\ calls[p][k].op = OpNotify /\ calls[p][k].ok
           /\ calls[p][k].arg = 0
           /\ calls[p][k].scores = <<12345, 0, 0, 0>>
    /\ Notifications = 2

\* C24 as stated: once the context of the pass is cancelled no work is
\* started for a further character: every call of the pass was made for a
\* character whose processing had begun when the context was cancelled.
C24_Original ==
    ctx.done =>
        \A k \in DOMAIN trace[1] :
            trace[1][k][1] # OpList =>
                \E i \in 1..ctx.begun :
                    i <= Len(characters[1]) /\ characters[1][i].ID = trace[1][k][2]

\* The context was cancelled while the first character was in flight, and
\* updateCharacter was then called for the second: its profile GET was
\* attempted with the done context, failed, and the error was returned.
C24_Witness ==
    /\ ctx.done
    /\ ctx.begun = 1
    /\ Len(characters[1]) = 2
    /\ LET ch == characters[1][2].ID
       IN  /\ <<OpA, ch, FALSE, 0>> \in {trace[1][k] : k \in DOMAIN trace[1]}
           /\ <<OpReturn, ch, FALSE, 0>> \in {trace[1][k] : k \in DOMAIN trace[1]}

\* C28: getLatestRun returns the run with the maximum completion instant
\* wherever it sits in the sequence; among runs tied for the maximum it
\* returns the first in input order; for an empty sequence it returns the
\* zero run.
C28_LatestRunIsFirstMaximum ==
    latestRun # <<>> =>
        IF rc = <<>>
        THEN latestRun[1] = [KeystoneRunId |-> 0, CompletedAt |-> 0]
        ELSE \E i \in DOMAIN rc :
                /\ latestRun[1] = rc[i]
                /\ \A j \in DOMAIN rc : rc[j].CompletedAt <= rc[i].CompletedAt
                /\ \A j \in 1..(i - 1) : rc[j].CompletedAt < rc[i].CompletedAt

\* Three runs not in chronological order, the second and a different third
\* one tied for the latest instant: the second was selected.
C28_Witness ==
    /\ Len(rc) = 3
    /\ rc[1].CompletedAt < rc[2].CompletedAt
    /\ rc[3].CompletedAt = rc[2].CompletedAt
    /\ rc[3] # rc[2]
    /\ latestRun = <<rc[2]>>

\* C29: the season merged into the record is the first element of the
\* sequence Provider B returned; when the sequence is empty tank, heal and dps
\* are 0, and the character goes on as any changed character: the store
\* update is called, a successful update is followed by the notification, a
\* successful notification by the pause, and only a failed update or a failed
\* notification makes updateCharacter return an error.
C29_CurrentSeasonIsFirstOrZero ==
    \A p \in Procs : \A k \in DOMAIN calls[p] :
        (calls[p][k].op = OpB /\ calls[p][k].ok) =>
            LET s == calls[p][k].seasons
                tank == IF s = <<>> THEN 0 ELSE s[1].Tank
                heal == IF s = <<>> THEN 0 ELSE s[1].Healer
                dps == IF s = <<>> THEN 0 ELSE s[1].Dps
            IN  /\ \A j \in DOMAIN calls[p] :
                       calls[p][j].op \in {OpUpdate, OpNotify} =>
                           /\ calls[p][j].scores[2] = tank
                           /\ calls[p][j].scores[3] = heal
                           /\ calls[p][j].scores[4] = dps
                /\ pc[p] # "UpdateCharacter" => Has(p, OpUpdate)
                /\ (HasOk(p, OpUpdate) /\ pc[p] # "SendComplexMessage") => Has(p, OpNotify)
                /\ (HasOk(p, OpNotify) /\ pc[p] # "sleep") => Has(p, OpSleep)
                /\ HasFail(p, OpReturn) => (HasFail(p, OpUpdate) \/ HasFail(p, OpNotify))

\* Provider B returned no season for a changed character whose stored
\* sub-scores were not 0: the record was stored and announced with zeros, and
\* the pause was taken.
C29_Witness ==
    \E k, j, m, n \in DOMAIN calls[1] :
        /\ calls[1][k].op = OpB /\ calls[1][k].ok /\ calls[1][k].seasons = <<>>
        /\ calls[1][j].op = OpUpdate /\ calls[1][j].ok
        /\ calls[1][j].scores = <<12345, 0, 0, 0>>
        /\ calls[1][m].op = OpNotify /\ calls[1][m].ok
        /\ calls[1][n].op = OpSleep
        /\ Row(calls[1][k].ch).TankScore = 0
        /\ Listed(1, calls[1][k].ch).TankScore # 0


\* The provider a call goes to: the token exchange and the profile GET go to
\* Provider A, GetCharacter to Provider B.
Provider(op) ==
    IF op \in {OpToken, OpA} THEN "A" ELSE IF op = OpB THEN "B" ELSE ""

\* Calls i < j of the pass of goroutine p are requests to the same provider
\* for two different characters.
SameProviderRequests(p, i, j) ==
    /\ i < j
    /\ Provider(trace[p][i][1]) # ""
    /\ Provider(trace[p][i][1]) = Provider(trace[p][j][1])
    /\ trace[p][i][2] # trace[p][j][2]

\* A pause lies between calls i and j of the pass of goroutine p.
PauseBetween(p, i, j) == \E k \in DOMAIN trace[p] : i < k /\ k < j /\ trace[p][k][1] = OpSleep

\* C26 as stated: within one pass two requests to the same provider for two
\* different characters are always separated by an inter-character pause.
C26_Original ==
    \A p \in Procs : \A i, j \in DOMAIN trace[p] :
        SameProviderRequests(p, i, j) => PauseBetween(p, i, j)

\* C26: within one pass two requests to the same provider for two different
\* characters are separated by an inter-character pause exactly when
\* updateCharacter returned nil for a character between them (the earlier
\* one included); after a character that returned an error the requests of
\* the next character follow with no pause.
C26_PauseBetweenIffNoError ==
    \A p \in Procs : \A i, j \in DOMAIN trace[p] :
        SameProviderRequests(p, i, j) =>
            (PauseBetween(p, i, j) <=>
                \E k \in DOMAIN trace[p] :
                    i < k /\ k < j /\ trace[p][k][1] = OpReturn /\ trace[p][k][3])

\* Both providers were asked about two characters in one pass, with a pause
\* between the two requests to each.
C26_Witness ==
    \E i, j, m, n \in DOMAIN trace[1] :
        /\ trace[1][i][1] = OpA /\ trace[1][j][1] = OpA
        /\ SameProviderRequests(1, i, j) /\ PauseBetween(1, i, j)
        /\ trace[1][m][1] = OpB /\ trace[1][n][1] = OpB
        /\ SameProviderRequests(1, m, n) /\ PauseBetween(1, m, n)


\* The pass of goroutine p stored new scores for character ch and failed to
\* send their announcement.
LostAnnouncement(p, ch) ==
    \E i, j \in DOMAIN trace[p] :
        /\ trace[p][i][1] = OpUpdate /\ trace[p][i][2] = ch /\ trace[p][i][3]
        /\ trace[p][j][1] = OpNotify /\ trace[p][j][2] = ch /\ ~trace[p][j][3]

\* The rating Provider A returned for character ch in the pass of goroutine p.
RatingOf(p, ch) ==
    LET k == CHOOSE k \in DOMAIN trace[p] :
                 trace[p][k][1] = OpA /\ trace[p][k][2] = ch /\ trace[p][k][3]
    IN  trace[p][k][4]

\* The next pass of goroutine p starts with a successful listing.
NextListing(p) ==
    /\ pc[p] = "returned"
    /\ passes' = passes + 1
    /\ trace'[p] = <<<<OpList, 0, TRUE, 0>>>>

Skipped(p, ch) ==
    /\ \E k \in DOMAIN trace[p] :
           trace[p][k][1] = OpReturn /\ trace[p][k][2] = ch /\ ~trace[p][k][3]
    /\ \A k \in DOMAIN trace[p] :
           ~(trace[p][k][1] = OpUpdate /\ trace[p][k][2] = ch /\ trace[p][k][3])

\* Every call made for character ch in the pass of goroutine p succeeded and
\* updateCharacter has returned.
AllSucceeded(p, ch) ==
    /\ \A k \in DOMAIN trace[p] : trace[p][k][2] = ch => trace[p][k][3]
    /\ TraceCountFor(p, OpReturn, ch) = 1

C30_Original ==
    /\ \A k \in DOMAIN store :
           /\ store[k].Name = formatName(store[k].Name)
           /\ store[k].Realm = formatRealm(store[k].Realm)
    /\ (Len(args) = 4 /\ args[2] = "add"
           /\ reply = NowTracking(formatName(args[3]), formatRealm(args[4]))) =>
           \E k \in DOMAIN store :
               /\ store[k].Name = formatName(args[3])
               /\ store[k].Realm = formatRealm(args[4])

\* A character was added whose name Provider A returned in lowercase: the
\* row carries that name, and the remove command for the same character and
\* realm has answered "No longer tracking" while the row is still there.
C30_Witness ==
    /\ Len(args) = 4
    /\ args[2] = "remove"
    /\ reply = NoLongerTracking(formatName(args[3]), formatRealm(args[4]))
    /\ \E k \in DOMAIN store :
           /\ ToLower(store[k].Name) = ToLower(args[3])
           /\ store[k].Name # formatName(args[3])
           /\ store[k].Realm = formatRealm(args[4])


\* C31: a pass changes the table only by the store update of the character
\* being processed: the table keeps its rows, every row keeps its id, name,
\* realm, class and creation time, and only a row whose name and realm are
\* the processed character's can change (in its four scores).
C31_PassOnlyUpdatesScoresOfProcessed ==
    [][store' # store =>
        /\ Len(store') = Len(store)
        /\ \E p \in Procs :
              /\ pc[p] = "UpdateCharacter"
              /\ \A k \in DOMAIN store :
                    /\ store'[k].ID = store[k].ID
                    /\ store'[k].Name = store[k].Name
                    /\ store'[k].Realm = store[k].Realm
                    /\ store'[k].Class = store[k].Class
                    /\ store'[k].DateCreated = store[k].DateCreated
                    /\ store'[k] # store[k] =>
                          /\ store[k].Name = character[p].Name
                          /\ store[k].Realm = character[p].Realm
                          /\ ScoresOf(store'[k]) = ScoresOf(character[p])]_vars

\* Of two tracked characters one has been updated to a new rating with no
\* season, and the row of the other is as it was inserted.
C31_Witness ==
    /\ Len(store) = 2
    /\ \E k, j \in DOMAIN store :
           /\ k # j
           /\ store[k] = [SeedRow(store[k].ID, 0) EXCEPT
                             !.OverallScore = 12345, !.TankScore = 0,
                             !.DPSScore = 0, !.HealScore = 0]
           /\ store[j] = SeedRow(store[j].ID, 0)


\* C32: the notification of a changed character carries as old score the
\* overall score the character was listed with, which is the stored one
\* before this pass wrote it, and as new score the rating Provider A
\* returned in this pass; the two differ.
C32_NotificationOldAndNew ==
    \A p \in Procs : \A k \in DOMAIN calls[p] :
        calls[p][k].op = OpNotify =>
            /\ calls[p][k].arg = Listed(p, calls[p][k].ch).OverallScore
            /\ \E j \in 1..(k - 1) :
                   /\ calls[p][j].op = OpA /\ calls[p][j].ok
                   /\ calls[p][j].arg = calls[p][k].scores[1]
            /\ calls[p][k].scores[1] = Row(calls[p][k].ch).OverallScore
            /\ calls[p][k].arg # calls[p][k].scores[1]

\* A notification went out for a character stored at 1234.5 whose rating
\* dropped to 0: the old score is 1234.5 and the new one 0.
C32_Witness ==
    \E k \in DOMAIN calls[1] :
        /\ calls[1][k].op = OpNotify /\ calls[1][k].ok
        /\ calls[1][k].arg = 12345
        /\ calls[1][k].scores[1] = 0


\* Every call of the pass of goroutine p succeeded and the pass has returned.
PassSucceeded(p) ==
    /\ pc[p] = "returned"
    /\ \A k \in DOMAIN trace[p] : trace[p][k][3]

C34_Original ==
    \A p \in Procs :
        /\ pc[p] = "sendRequest" => Bearer # ""
        /\ \A k \in DOMAIN calls[p] : calls[p][k].op = OpA => calls[p][k].bearer # ""

\* The token endpoint answered 200 with an empty access_token for this
\* character, checkClient returned nil and the profile GET went out with an
\* empty bearer token.
C34_Witness ==
    \E j, k \in DOMAIN calls[1] :
        /\ j < k
        /\ calls[1][j].op = OpToken /\ calls[1][j].ok
        /\ calls[1][k].op = OpA /\ calls[1][k].bearer = ""
        /\ authResp[1].AccessToken = ""

-----------------------------------------------------------------------------
\* The scores embed: buildScoresFields (discord package).  Only the lengths
\* of the field values decide what the function does, so a field is modelled
\* by the length of its Value.

maxEmbedFieldChars == 1024
maxEmbedFields == 24

\* The longest character list handed to buildScoresFields.
MaxCharacters == 90

\* len(c.Name) + len(c.Realm) of the listed characters.
Widths == {4, 24}

\* len(msg): "%d) [%s-%s](https://raider.io/characters/us/%s/%s)\n" holds 41
\* literal bytes, the position once, and the name and the realm twice each.
MsgLen(k, w) == Len(Digits(k)) + 41 + 2 * w

\* len(score) for "%0.0f\n" of a five-digit overall score.
ScoreLen == 6

\* len("\nToo many characters tracked to list them all.")
TooManyLen == 47

\* getBasicScoresFields: maxEmbedFields+1 fields with an empty Value.
getBasicScoresFields == [f \in 0 .. maxEmbedFields |-> 0]

Max(a, b) == IF a >= b THEN a ELSE b

\* buildScoresFields has been entered with a list of n characters of width w:
\* fields allocated, charField 0, scoreField 1.  i counts the characters
\* ranged over, high is the highest index of fields used so far, fields the
\* length of the slice returned.
ScoresFieldsEntered(n, w) ==
    [characters |-> n, width |-> w, i |-> 0, Value |-> getBasicScoresFields,
     charField |-> 0, scoreField |-> 1, high |-> 0, pc |-> "range", fields |-> 0]

\* An index expression fields[k] with k outside the array panics.
IndexPanic(k) == [sf EXCEPT !.high = Max(@, k), !.pc = "panic"]

\* One iteration of the loop over characters.
rangeCharacters ==
    /\ sf.pc = "range"
    /\ sf.i < sf.characters
    /\ LET msg == MsgLen(sf.i + 1, sf.width)
           cf == sf.charField + 3
           scf == sf.scoreField + 3
       IN  IF msg + sf.Value[sf.charField] >= maxEmbedFieldChars
           THEN IF sf.charField >= maxEmbedFields
                THEN sf' = [sf EXCEPT !.Value[sf.charField] = @ + TooManyLen,
                                      !.pc = "return"]
                ELSE IF cf > maxEmbedFields
                     THEN sf' = IndexPanic(cf)
                     ELSE IF scf > maxEmbedFields
                          THEN sf' = [IndexPanic(scf) EXCEPT !.charField = cf,
                                                             !.scoreField = scf,
                                                             !.Value[cf] = msg]
                          ELSE sf' = [sf EXCEPT !.charField = cf,
                                                !.scoreField = scf,
                                                !.Value[cf] = msg,
                                                !.Value[scf] = ScoreLen,
                                                !.high = Max(@, scf),
                                                !.i = @ + 1]
           ELSE sf' = [sf EXCEPT !.Value[sf.charField] = @ + msg,
                                 !.Value[sf.scoreField] = @ + ScoreLen,
                                 !.high = Max(@, sf.scoreField),
                                 !.i = @ + 1]
    /\ UNCHANGED <<store, cred, passes, pc, locals, calls, trace, ctx, rc, latestRun,
                   args, reply, bot, cfg>>

\* return fields[0 : scoreField+1], after the loop ended or broke.
returnFields ==
    /\ \/ sf.pc = "range" /\ sf.i = sf.characters
       \/ sf.pc = "return"
    /\ sf' = [sf EXCEPT !.pc = "returned", !.fields = sf.scoreField + 1]
    /\ UNCHANGED <<store, cred, passes, pc, locals, calls, trace, ctx, rc, latestRun,
                   args, reply, bot, cfg>>

InitScoresFields ==
    /\ Constructed
    /\ store = <<>>
    /\ ID = "id"
    /\ Secret = "secret"
    /\ rc = <<>>
    /\ latestRun = <<>>
    /\ args = <<>>
    /\ reply = <<>>
    /\ bot = NoMessage
    /\ sf \in {ScoresFieldsEntered(n, w) : n \in 0 .. MaxCharacters, w \in Widths}
    /\ cfg = <<>>

NextScoresFields == rangeCharacters \/ returnFields

SpecScoresFields == InitScoresFields /\ [][NextScoresFields]_vars

\* C35: for a character list of any length, buildScoresFields returns a
\* non-empty list of at most 25 fields and never uses an index outside the
\* maxEmbedFields+1 fields it allocated.
C35_Original ==
    /\ sf.high \in DOMAIN getBasicScoresFields
    /\ sf.pc # "panic"
    /\ sf.pc = "returned" => sf.fields \in 1 .. maxEmbedFields + 1

\* The eighth overflow moves scoreField to 25 and fields[25] is written.
C35_Witness ==
    /\ sf.pc = "panic"
    /\ sf.scoreField = maxEmbedFields + 1
    /\ sf.high = maxEmbedFields + 1

\* C37: HandleMessage sends no message and calls no service for content that
\* does not start with the command prefix; an add or remove command with fewer
\* than two arguments sends only the usage message of that command and never
\* calls the character service.
C37_NoPrefixNothingFewArgsUsageOnly ==
    /\ (args # <<>> /\ args[1] # Command) =>
          /\ bot.sent = <<>>
          /\ bot.svc = <<>>
          /\ passes = bot.base
    /\ (Len(args) \in 2 .. 3 /\ args[1] = Command /\ args[2] \in {"add", "remove"}) =>
          /\ Len(bot.sent) = 1
          /\ bot.sent[1][1] = Usage(args[2])
          /\ bot.svc = <<>>

\* A message without the prefix was handled after two characters were added.
C37_Witness ==
    /\ args = <<"hello", Command>>
    /\ bot.sent = <<>>
    /\ Len(store) = 2

\* The call of AddCharacter made for the message handled last, if any.
AddCalled == bot.svc # <<>> /\ bot.svc[1].op = "AddCharacter"

\* AddCharacter inserted only after both providers answered, and returned the
\* error of whichever step failed.
InsertAfterBothFetches ==
    AddCalled =>
        LET call == bot.svc[1]
        IN  /\ call.insert # "none" => (call.a = "ok" /\ call.b = "ok")
            /\ (call.a = "failed" \/ call.b = "failed") =>
                  (call.insert = "none" /\ call.err # NilErr)

\* The table is left as it was by a call of AddCharacter that did not insert.
NothingInsertedOnFailure ==
    (bot'.svc # <<>> /\ bot'.svc[1].op = "AddCharacter" /\ bot'.svc[1].insert # "ok")
        => store' = store

\* The row a successful AddCharacter left in the table, as the repository
\* reads it, holds Provider A's rating and the role scores of the first
\* season Provider B listed (zeros when it listed none).
InsertedScoresAreFetched ==
    (AddCalled /\ bot.svc[1].insert = "ok") =>
        LET call == bot.svc[1]
            current == CurrentSeason(call.seasons)
            row == store[Len(store)]
        IN  /\ row.OverallScore = call.rating
            /\ row.TankScore = current.Tank
            /\ row.DPSScore = current.Dps
            /\ row.HealScore = current.Healer

\* C38: AddCharacter inserts a record only after both the Provider A fetch and
\* the Provider B fetch succeeded; if either fails nothing is inserted and the
\* error is returned; the inserted overall score is the Provider A rating and
\* the role scores are those of the first Provider B season (zeros when there
\* is none).
C38_Original ==
    /\ [](InsertAfterBothFetches /\ InsertedScoresAreFetched)
    /\ [][NothingInsertedOnFailure]_vars

\* A character whose first season is SeasonA was added: the row reads back
\* with the healer score in the dps column and the dps score in the heal column.
C38_Witness ==
    /\ AddCalled
    /\ bot.svc[1].insert = "ok"
    /\ bot.svc[1].seasons = <<SeasonA, SeasonB>>
    /\ store[Len(store)].OverallScore = bot.svc[1].rating
    /\ store[Len(store)].TankScore = SeasonA.Tank
    /\ store[Len(store)].HealScore = SeasonA.Dps
    /\ store[Len(store)].DPSScore = SeasonA.Healer
    /\ SeasonA.Dps # SeasonA.Healer

\* C36: for the update command, the progress message is sent before the pass
\* starts; if that send fails the pass is not started and the send's error is
\* returned; if the pass fails, the failure message is sent and what the
\* handler returns is the result of that send, never the error of the pass.
C36_ProgressThenPassFailureAnswered ==
    args = <<Command, "update">> =>
        /\ passes > bot.base => bot.sent[1] = <<Progress, NilErr>>
        /\ bot.sent[1] = <<Progress, SendErr>> =>
              /\ passes = bot.base
              /\ bot.pc = "idle"
              /\ bot.ret = SendErr
              /\ Len(bot.sent) = 1
        /\ (bot.pc = "idle" /\ passes > bot.base /\ ret[1] # NilErr) =>
              /\ Len(bot.sent) = 2
              /\ bot.sent[2][1] = FailedUpdate
              /\ bot.ret = bot.sent[2][2]
              /\ bot.ret # ret[1]

\* The pass of an update command failed, the failure message went out and the
\* handler returned nil.
C36_Witness ==
    /\ args = <<Command, "update">>
    /\ bot.pc = "idle"
    /\ passes > bot.base
    /\ ret[1] = ListErr("database error")
    /\ bot.sent = <<<<Progress, NilErr>>, <<FailedUpdate, NilErr>>>>
    /\ bot.ret = NilErr

\* C39: merge never changes a field of the receiver that is already non-empty
\* or non-zero, never changes LogLevel, and is idempotent: merging the same
\* config twice (or more often) leaves what merging it once left.
C39_MergeKeepsSetFieldsAndIsIdempotent ==
    cfg.n >= 1 =>
        /\ \A f \in StringFields \cup IntFields :
              cfg.start[f] # Zero(f) => cfg.c[f] = cfg.start[f]
        /\ cfg.c.LogLevel = cfg.start.LogLevel
        /\ cfg.c = cfg.once

\* A receiver with a client id and log level 0 but no token or frequency was
\* merged twice with an argument that sets every field.
C39_Witness ==
    /\ cfg.n = 2
    /\ cfg.start.BlizzardClientID = "id"
    /\ cfg.start.DiscordToken = ""
    /\ cfg.start.UpdaterFrequency = 0
    /\ cfg.start.LogLevel = 0
    /\ \A f \in StringFields \cup IntFields : cfg.arg[f] # Zero(f)
    /\ cfg.c.BlizzardClientID = "id"
    /\ cfg.c.DiscordToken = "token2"
    /\ cfg.c.UpdaterFrequency = 30
    /\ cfg.c.LogLevel = 0

====
